---- MODULE Spec2Model ----
(***************************************************************************)
(* Model of aumai-error-taxonomy: the built-in error registry, the custom   *)
(* ErrorRegistry container and the exception classifier.                    *)
(*                                                                          *)
(* A Python dict is modelled as a sequence of [key, value] entries in       *)
(* insertion order with pairwise distinct keys.                             *)
(***************************************************************************)
EXTENDS Integers, Sequences, FiniteSets, TLC

VARIABLES ERROR_REGISTRY, errors, socketTimeoutIsAlias, op, arg, result, matchedRule,
          registerCalls, dictOf, heap, request_count, error_count, emitted,
          _repo, table, uuids, clock, repoCall, recorded, bus, calls

\* the ErrorRegistry instances created so far and the dict objects they hold
instanceVars ==
  <<dictOf, heap>>

\* the counters of one AsyncErrorRegistry and the events its emitter sent
serviceVars ==
  <<request_count, error_count, emitted>>

\* one ErrorStore, the table of its repository, and the environment it reads
storeVars ==
  <<_repo, table, uuids, clock, repoCall, recorded>>

vars ==
  <<ERROR_REGISTRY, errors, socketTimeoutIsAlias, op, arg, result, matchedRule,
    registerCalls, dictOf, heap, request_count, error_count, emitted,
    _repo, table, uuids, clock, repoCall, recorded, bus, calls>>

(* ERROR_REGISTRY        the module-level dict of core.py                     *)
(* errors                the errors dict of one custom ErrorRegistry instance *)
(* socketTimeoutIsAlias  whether the interpreter defines socket.timeout as    *)
(*                       TimeoutError                                         *)
(* op, arg, result       the last call made, its argument and its outcome     *)
(* matchedRule           the rule classify_exception returned from (0: none)  *)
(* registerCalls         history: the arguments of the register calls made on *)
(*                       the custom instance, oldest first                    *)
(* dictOf                for each ErrorRegistry instance created, in order of *)
(*                       creation, the identity of the dict its errors field  *)
(*                       refers to                                            *)
(* heap                  the contents of each dict object, by identity        *)
(* request_count,        the AsyncService counters of one AsyncErrorRegistry  *)
(* error_count                                                                *)
(* emitted               the events passed to the emitter, oldest first       *)
(* _repo                 the _repo field of one ErrorStore: None until create *)
(*                       has prepared the repository                          *)
(* table                 the rows of the repository's error_occurrences       *)
(*                       table, in the order they were saved                  *)
(* uuids                 how many uuid4 values have been drawn                *)
(* clock                 the reading of the wall clock, in half seconds       *)
(* repoCall              the repository method the last operation called      *)
(*                       ("none" when it called none)                         *)
(* bus                   the events published on one EventBus, oldest first   *)
(* calls                 the calls started concurrently on one                *)
(*                       AsyncErrorRegistry: what each was called with and    *)
(*                       the await it has reached                             *)
(* recorded              history: for each record_error call that returned an *)
(*                       id, the id, the arguments, the instant observed, and *)
(*                       whether delete_occurrence was later called with it   *)

(* ------------------------------ bounds ---------------------------------- *)

\* number of application codes (700 + i) a custom registry is exercised with
MaxCustomCodes ==
  2

\* number of register calls made on the custom registry
MaxRegisterCalls ==
  3

\* number of ErrorRegistry instances created
MaxInstances ==
  2

\* number of calls made on the AsyncErrorRegistry
MaxRequests ==
  3

\* the number of record_error and record_agent_error calls made
MaxOccurrences ==
  2

\* the number of events published on the bus
MaxPublished ==
  2

\* the number of calls running concurrently on one AsyncErrorRegistry
MaxCalls ==
  3

(* ------------------------- models.py: data model ------------------------ *)

ErrorCategory ==
  <<"model", "tool", "security", "resource", "orchestration", "data">>

Categories ==
  {ErrorCategory[i] : i \in 1..Len(ErrorCategory)}

\* AgentError.severity_must_be_valid
severity_must_be_valid(value) ==
  value \in {"critical", "high", "medium", "low"}

\* variant: zero passes the code validator
code_must_be_positive_allows_zero(value) ==
  ~(value < 0)

\* AgentError.code_must_be_positive
code_must_be_positive(value) ==
  ~(value <= 0)

\* AgentError.model_validate / AgentError(...): construction succeeds only
\* when both field validators accept.
AgentErrorValid(raw) ==
  /\ code_must_be_positive(raw.code)
  /\ severity_must_be_valid(raw.severity)

(* --------------------------- dict operations ---------------------------- *)

DictKeys(d) ==
  {d[i].key : i \in 1..Len(d)}

DictHas(d, k) ==
  \E i \in 1..Len(d) : d[i].key = k

DictIndex(d, k) ==
  CHOOSE i \in 1..Len(d) : d[i].key = k

\* d[k]
DictAt(d, k) ==
  d[DictIndex(d, k)].value

\* variant: an existing key keeps its value (setdefault)
DictSet_keep_first(d, k, v) ==
  IF DictHas(d, k)
    THEN d
    ELSE Append(d, [key |-> k, value |-> v])

\* d[k] = v : an existing key keeps its position, a new key is appended
DictSet(d, k, v) ==
  IF DictHas(d, k)
    THEN [d EXCEPT ![DictIndex(d, k)] = [key |-> k, value |-> v]]
    ELSE Append(d, [key |-> k, value |-> v])

\* list(d.values())
DictValues(d) ==
  [i \in 1..Len(d) |-> d[i].value]

(* ----------------------- core.py: built-in registry --------------------- *)

_RAW_ERRORS ==
  <<
    [code |-> 101, category |-> "model", name |-> "model_not_found",
     description |-> "The requested model identifier does not exist or is unavailable.",
     retryable |-> FALSE, severity |-> "high"],
    [code |-> 102, category |-> "model", name |-> "model_context_overflow",
     description |-> "The input exceeds the model's maximum context window.",
     retryable |-> FALSE, severity |-> "medium"],
    [code |-> 103, category |-> "model", name |-> "model_timeout",
     description |-> "The model did not respond within the allowed time limit.",
     retryable |-> TRUE, severity |-> "high"],
    [code |-> 104, category |-> "model", name |-> "model_rate_limit",
     description |-> "The model provider has rate-limited the current API key or account.",
     retryable |-> TRUE, severity |-> "medium"],
    [code |-> 105, category |-> "model", name |-> "model_output_parse_error",
     description |-> "The model response could not be parsed into the expected structured format.",
     retryable |-> TRUE, severity |-> "medium"],
    [code |-> 201, category |-> "tool", name |-> "tool_not_found",
     description |-> "The agent called a tool that is not registered or available.",
     retryable |-> FALSE, severity |-> "high"],
    [code |-> 202, category |-> "tool", name |-> "tool_invocation_error",
     description |-> "The tool raised an unhandled exception during execution.",
     retryable |-> TRUE, severity |-> "high"],
    [code |-> 203, category |-> "tool", name |-> "tool_input_validation_error",
     description |-> "The arguments supplied to the tool failed schema validation.",
     retryable |-> FALSE, severity |-> "medium"],
    [code |-> 204, category |-> "tool", name |-> "tool_timeout",
     description |-> "The tool did not complete within the configured deadline.",
     retryable |-> TRUE, severity |-> "high"],
    [code |-> 205, category |-> "tool", name |-> "tool_output_schema_mismatch",
     description |-> "The tool returned output that does not match its declared schema.",
     retryable |-> FALSE, severity |-> "medium"],
    [code |-> 301, category |-> "security", name |-> "auth_failed",
     description |-> "Authentication credentials are missing, invalid, or expired.",
     retryable |-> FALSE, severity |-> "critical"],
    [code |-> 302, category |-> "security", name |-> "permission_denied",
     description |-> "The agent lacks the required permissions to perform the action.",
     retryable |-> FALSE, severity |-> "critical"],
    [code |-> 303, category |-> "security", name |-> "policy_violation",
     description |-> "The requested action violates a configured security policy.",
     retryable |-> FALSE, severity |-> "critical"],
    [code |-> 304, category |-> "security", name |-> "injection_detected",
     description |-> "A prompt or command injection attempt was detected and blocked.",
     retryable |-> FALSE, severity |-> "critical"],
    [code |-> 305, category |-> "security", name |-> "sandbox_escape_attempt",
     description |-> "The agent attempted an action outside its permitted sandbox boundary.",
     retryable |-> FALSE, severity |-> "critical"],
    [code |-> 401, category |-> "resource", name |-> "resource_exhausted",
     description |-> "A system resource (memory, CPU, file descriptors) has been exhausted.",
     retryable |-> TRUE, severity |-> "high"],
    [code |-> 402, category |-> "resource", name |-> "budget_exceeded",
     description |-> "The operation exceeded the allocated cost or token budget.",
     retryable |-> FALSE, severity |-> "high"],
    [code |-> 403, category |-> "resource", name |-> "storage_quota_exceeded",
     description |-> "The agent's persistent storage quota has been exceeded.",
     retryable |-> FALSE, severity |-> "medium"],
    [code |-> 404, category |-> "resource", name |-> "network_unreachable",
     description |-> "The target network endpoint is not reachable from the agent's environment.",
     retryable |-> TRUE, severity |-> "high"],
    [code |-> 501, category |-> "orchestration", name |-> "max_iterations_exceeded",
     description |-> "The agent exceeded the maximum allowed reasoning or action loop iterations.",
     retryable |-> FALSE, severity |-> "high"],
    [code |-> 502, category |-> "orchestration", name |-> "plan_parse_error",
     description |-> "The agent's plan or task decomposition could not be parsed.",
     retryable |-> TRUE, severity |-> "medium"],
    [code |-> 503, category |-> "orchestration", name |-> "dependency_cycle_detected",
     description |-> "A circular dependency was found in the agent's task graph.",
     retryable |-> FALSE, severity |-> "high"],
    [code |-> 504, category |-> "orchestration", name |-> "handoff_failed",
     description |-> "An attempt to hand off control to another agent or process failed.",
     retryable |-> TRUE, severity |-> "high"],
    [code |-> 601, category |-> "data", name |-> "data_schema_violation",
     description |-> "Input or output data does not conform to the expected schema.",
     retryable |-> FALSE, severity |-> "medium"],
    [code |-> 602, category |-> "data", name |-> "data_not_found",
     description |-> "A required data record or artifact could not be located.",
     retryable |-> FALSE, severity |-> "medium"],
    [code |-> 603, category |-> "data", name |-> "data_corruption",
     description |-> "A data artifact is present but its contents are malformed or corrupted.",
     retryable |-> FALSE, severity |-> "high"],
    [code |-> 604, category |-> "data", name |-> "pii_detected",
     description |-> "Personally identifiable information was found in a context where it is forbidden.",
     retryable |-> FALSE, severity |-> "critical"],
    [code |-> 105, category |-> "model", name |-> "model_output_parse_error",
     description |-> "The model response could not be parsed into the expected structured format.",
     retryable |-> TRUE, severity |-> "medium"],
    [code |-> 405, category |-> "resource", name |-> "disk_write_error",
     description |-> "A write operation to the filesystem failed due to permission or space issues.",
     retryable |-> TRUE, severity |-> "high"],
    [code |-> 406, category |-> "resource", name |-> "connection_pool_exhausted",
     description |-> "All connections in the pool are in use; the request cannot be served.",
     retryable |-> TRUE, severity |-> "high"],
    [code |-> 605, category |-> "data", name |-> "encoding_error",
     description |-> "A data encoding or decoding error occurred (e.g. invalid UTF-8 sequence).",
     retryable |-> FALSE, severity |-> "medium"],
    [code |-> 606, category |-> "data", name |-> "missing_required_field",
     description |-> "A required field is absent from the supplied data payload.",
     retryable |-> FALSE, severity |-> "medium"]
  >>

RECURSIVE build_registry_loop_by_position(_, _)
\* variant: the entry is stored under its position in the table
build_registry_loop_by_position(registry, i) ==
  IF i > Len(_RAW_ERRORS)
    THEN [raised |-> FALSE, registry |-> registry]
    ELSE IF ~AgentErrorValid(_RAW_ERRORS[i])
      THEN [raised |-> TRUE, registry |-> registry]
      ELSE build_registry_loop_by_position(
             DictSet(registry, i, _RAW_ERRORS[i]), i + 1)

RECURSIVE build_registry_loop(_, _)
\* the for loop of _build_registry over _RAW_ERRORS[i..]; a failed validation
\* raises out of the loop
build_registry_loop(registry, i) ==
  IF i > Len(_RAW_ERRORS)
    THEN [raised |-> FALSE, registry |-> registry]
    ELSE IF ~AgentErrorValid(_RAW_ERRORS[i])
      THEN [raised |-> TRUE, registry |-> registry]
      ELSE build_registry_loop(
             DictSet(registry, _RAW_ERRORS[i].code, _RAW_ERRORS[i]), i + 1)

_build_registry ==
  build_registry_loop(<<>>, 1)

(* ------------------------------ results --------------------------------- *)

Returned(v) ==
  [kind |-> "return", value |-> v]

ReturnedNone ==
  [kind |-> "None", value |-> <<>>]

Raised(e) ==
  [kind |-> "raise", value |-> e]

(* ---------------------- models.py: AgentError objects ------------------ *)

\* AgentError(code=..., category=..., name=..., description=...,
\* retryable=..., severity=...): the object holding the supplied fields, or
\* the ValidationError a rejecting validator causes
AgentError_init(raw) ==
  IF AgentErrorValid(raw)
    THEN Returned([code |-> raw.code, category |-> raw.category,
                   name |-> raw.name, description |-> raw.description,
                   retryable |-> raw.retryable, severity |-> raw.severity])
    ELSE Raised("pydantic.ValidationError")

\* error.<field> = value on an AgentError object: the model declares no
\* frozen configuration and no validation on assignment, so the field is
\* simply overwritten
AgentError_setattr(error, field, value) ==
  [error EXCEPT ![field] = value]

(* ------------------------- core.py: public API -------------------------- *)

\* variant: ERROR_REGISTRY.pop(code, None) takes the entry out of the dict
registry_after_get_pop(registry, code) ==
  SelectSeq(registry, LAMBDA entry : entry.key # code)

\* the dict after ERROR_REGISTRY.get(code): dict.get adds and removes nothing
registry_after_get(registry, code) ==
  registry

\* variant: an absent code yields the generic definition instead of raising
lookup_error_default(code) ==
  IF ~DictHas(ERROR_REGISTRY, code)
    THEN Returned(DictAt(ERROR_REGISTRY, 601))
    ELSE Returned(DictAt(ERROR_REGISTRY, code))

\* lookup_error(code)
lookup_error(code) ==
  IF ~DictHas(ERROR_REGISTRY, code)
    THEN Raised("UnknownErrorCode")
    ELSE Returned(DictAt(ERROR_REGISTRY, code))

RECURSIVE InsertByCode_descending(_, _)
\* variant: the comparison is reversed
InsertByCode_descending(sorted, e) ==
  IF sorted = <<>>
    THEN <<e>>
    ELSE IF Head(sorted).code >= e.code
      THEN <<Head(sorted)>> \o InsertByCode_descending(Tail(sorted), e)
      ELSE <<e>> \o sorted

RECURSIVE InsertByCode(_, _)
\* insert e after every element whose code is <= e.code (stable)
InsertByCode(sorted, e) ==
  IF sorted = <<>>
    THEN <<e>>
    ELSE IF Head(sorted).code <= e.code
      THEN <<Head(sorted)>> \o InsertByCode(Tail(sorted), e)
      ELSE <<e>> \o sorted

RECURSIVE SortedByCode(_)
\* sorted(xs, key=lambda e: e.code)
SortedByCode(xs) ==
  IF xs = <<>>
    THEN <<>>
    ELSE InsertByCode(SortedByCode(SubSeq(xs, 1, Len(xs) - 1)), xs[Len(xs)])

\* variant: the comparison is negated
FilterCategory_other(xs, category) ==
  SelectSeq(xs, LAMBDA e : e.category # category)

\* [e for e in xs if e.category == category]
FilterCategory(xs, category) ==
  SelectSeq(xs, LAMBDA e : e.category = category)

\* errors_by_category(category)
errors_by_category(category) ==
  SortedByCode(FilterCategory(DictValues(ERROR_REGISTRY), category))

(* ---------------------- core.py: exception classifier ------------------- *)

_EXCEPTION_CODE_MAP ==
  <<
    [exc_type |-> "TimeoutError", code |-> 103],
    [exc_type |-> "ConnectionError", code |-> 404],
    [exc_type |-> "ConnectionRefusedError", code |-> 404],
    [exc_type |-> "ConnectionResetError", code |-> 404],
    [exc_type |-> "socket.timeout", code |-> 103],
    [exc_type |-> "urllib.error.URLError", code |-> 404],
    [exc_type |-> "PermissionError", code |-> 302],
    [exc_type |-> "FileNotFoundError", code |-> 602],
    [exc_type |-> "MemoryError", code |-> 401],
    [exc_type |-> "RecursionError", code |-> 501],
    [exc_type |-> "UnicodeDecodeError", code |-> 605],
    [exc_type |-> "UnicodeEncodeError", code |-> 605],
    [exc_type |-> "ValueError", code |-> 601],
    [exc_type |-> "KeyError", code |-> 602],
    [exc_type |-> "TypeError", code |-> 203],
    [exc_type |-> "OSError", code |-> 405]
  >>

\* code of the generic fallback of classify_exception
FallbackCode ==
  601

(* ------------------- integration.py: service metadata ------------------- *)

\* metadata["error_count"] of register_with_aumos
AdvertisedErrorCount ==
  30

\* Direct base classes of the exception classes the classifier is exercised
\* with: the interpreter's built-in hierarchy, the two library classes the
\* table names, the test suite's MyCustomException, and two application
\* classes that inherit from two listed kinds.
Bases ==
  [ BaseException |-> {},
    Exception |-> {"BaseException"},
    KeyboardInterrupt |-> {"BaseException"},
    ArithmeticError |-> {"Exception"},
    ZeroDivisionError |-> {"ArithmeticError"},
    LookupError |-> {"Exception"},
    IndexError |-> {"LookupError"},
    KeyError |-> {"LookupError"},
    RuntimeError |-> {"Exception"},
    RecursionError |-> {"RuntimeError"},
    MemoryError |-> {"Exception"},
    TypeError |-> {"Exception"},
    ValueError |-> {"Exception"},
    UnicodeError |-> {"ValueError"},
    UnicodeDecodeError |-> {"UnicodeError"},
    UnicodeEncodeError |-> {"UnicodeError"},
    OSError |-> {"Exception"},
    TimeoutError |-> {"OSError"},
    ConnectionError |-> {"OSError"},
    ConnectionRefusedError |-> {"ConnectionError"},
    ConnectionResetError |-> {"ConnectionError"},
    BrokenPipeError |-> {"ConnectionError"},
    PermissionError |-> {"OSError"},
    FileNotFoundError |-> {"OSError"},
    MyCustomException |-> {"Exception"},
    ConnectionTimeout |-> {"ConnectionError", "TimeoutError"},
    KeyValueError |-> {"KeyError", "ValueError"} ]
  @@ ("socket.timeout" :> {"OSError"})
  @@ ("urllib.error.URLError" :> {"OSError"})
  @@ ("urllib.error.HTTPError" :> {"urllib.error.URLError"})
  @@ ("json.JSONDecodeError" :> {"ValueError"})
  @@ ("pydantic.ValidationError" :> {"ValueError"})

ExcTypes ==
  DOMAIN Bases

RECURSIVE Mro(_)
\* the class and all its ancestors
Mro(t) ==
  {t} \cup UNION {Mro(b) : b \in Bases[t]}

\* the class object a name denotes: from Python 3.10 on socket.timeout is
\* the very class TimeoutError, before that a separate subclass of OSError
ClassOf(t) ==
  IF socketTimeoutIsAlias /\ t = "socket.timeout" THEN "TimeoutError" ELSE t

\* variant: type(exc) is exc_type
isinstance_exact(t, exc_type) ==
  ClassOf(exc_type) = ClassOf(t)

\* isinstance(exc, exc_type) for an exception whose class is named t
isinstance(t, exc_type) ==
  ClassOf(exc_type) \in Mro(ClassOf(t))

RECURSIVE classify_loop(_, _)
\* the for loop of classify_exception from rule i on, then the fallback;
\* rule is the index of the rule that returned (0 for the fallback)
classify_loop(exc, i) ==
  IF i > Len(_EXCEPTION_CODE_MAP)
    THEN [rule |-> 0, result |-> lookup_error(FallbackCode)]
    ELSE IF isinstance(exc.type, _EXCEPTION_CODE_MAP[i].exc_type)
      THEN [rule |-> i, result |-> lookup_error(_EXCEPTION_CODE_MAP[i].code)]
      ELSE classify_loop(exc, i + 1)

RECURSIVE classify_loop_last(_, _)
\* variant: the table is walked back to front from rule i
classify_loop_last(exc, i) ==
  IF i < 1
    THEN [rule |-> 0, result |-> lookup_error(FallbackCode)]
    ELSE IF isinstance(exc.type, _EXCEPTION_CODE_MAP[i].exc_type)
      THEN [rule |-> i, result |-> lookup_error(_EXCEPTION_CODE_MAP[i].code)]
      ELSE classify_loop_last(exc, i - 1)

\* variant: the last matching rule wins
classify_exception_last(exc) ==
  classify_loop_last(exc, Len(_EXCEPTION_CODE_MAP))

\* variant: the fallback is the code the docstring names
classify_exception_fallback101(exc) ==
  IF classify_loop(exc, 1).rule = 0
    THEN [rule |-> 0, result |-> lookup_error(101)]
    ELSE classify_loop(exc, 1)

\* variant: the message text is consulted before the rule table
classify_exception_by_message(exc) ==
  IF exc.message = "timed out"
    THEN [rule |-> 1, result |-> lookup_error(103)]
    ELSE classify_loop(exc, 1)

\* classify_exception(exc)
classify_exception(exc) ==
  classify_loop(exc, 1)

(* ------------------ core.py: response and exception wrapper ------------ *)

\* An optional string (str | None) is a sequence of at most one string.
None ==
  <<>>

Some(text) ==
  <<text>>

\* truth value of an optional string in a condition: None and "" are false
Truthy(optional) ==
  optional # None /\ optional[1] # ""

\* ErrorCategory is a str enum: the value of a member is the string the
\* member is equal to
ErrorCategory_value(member) ==
  member

RECURSIVE ZeroPadded(_, _)
\* the decimal digits of n, padded with zeros on the left to the given width
ZeroPadded(n, width) ==
  IF width <= 1
    THEN ToString(n % 10)
    ELSE ZeroPadded(n \div 10, width - 1) \o ToString(n % 10)

\* datetime.isoformat() of a UTC instant: the fraction is left out when the
\* microsecond is zero
isoformat(now) ==
  now.date \o "T" \o now.time
    \o (IF now.microsecond = 0 THEN "" ELSE "." \o ZeroPadded(now.microsecond, 6))
    \o "+00:00"

\* variant: an empty details string is reported as None
create_error_response_details_or_none(error, details, now) ==
  [error |->
     [code |-> error.code,
      name |-> error.name,
      category |-> ErrorCategory_value(error.category),
      description |-> error.description,
      severity |-> error.severity,
      retryable |-> error.retryable,
      details |-> IF Truthy(details) THEN details ELSE None,
      timestamp |-> isoformat(now)]]

\* create_error_response(error, details) called at the instant now
create_error_response(error, details, now) ==
  [error |->
     [code |-> error.code,
      name |-> error.name,
      category |-> ErrorCategory_value(error.category),
      description |-> error.description,
      severity |-> error.severity,
      retryable |-> error.retryable,
      details |-> details,
      timestamp |-> isoformat(now)]]

\* variant: the suffix is added whenever details is not None
AgentErrorException_init_is_not_none(error, details) ==
  [error |-> error,
   details |-> details,
   message |->
     IF details # None
       THEN "[" \o ToString(error.code) \o "] " \o error.name \o ": "
              \o error.description \o " -- " \o details[1]
       ELSE "[" \o ToString(error.code) \o "] " \o error.name \o ": "
              \o error.description]

\* AgentErrorException(error, details): the attributes of the exception and
\* the message handed to Exception.__init__.  The separator written " -- "
\* here is " — " (an em dash between two spaces) in the source.
AgentErrorException_init(error, details) ==
  [error |-> error,
   details |-> details,
   message |->
     IF Truthy(details)
       THEN "[" \o ToString(error.code) \o "] " \o error.name \o ": "
              \o error.description \o " -- " \o details[1]
       ELSE "[" \o ToString(error.code) \o "] " \o error.name \o ": "
              \o error.description]

(* -------------------- async_core.py: AsyncErrorRegistry ----------------- *)

\* self._emitter.emit(name, **kwargs): the event as the emitter receives it
Event(name, kwargs) ==
  [name |-> name, kwargs |-> kwargs]

\* variant: the UnknownErrorCode is swallowed after the notification
async_lookup_error_swallow(code) ==
  IF lookup_error(code).kind = "raise"
    THEN [request_count |-> request_count + 1,
          error_count |-> error_count + 1,
          emitted |-> Append(emitted,
                        Event("error.lookup_failed", [error_code |-> code])),
          result |-> ReturnedNone]
    ELSE [request_count |-> request_count + 1,
          error_count |-> error_count,
          emitted |-> Append(emitted,
                        Event("error.looked_up",
                              [error_code |-> lookup_error(code).value.code,
                               error_name |-> lookup_error(code).value.name])),
          result |-> lookup_error(code)]

\* AsyncErrorRegistry.lookup_error(code), run to completion: the counters and
\* the emitted events afterwards, and the outcome of the call
async_lookup_error(code) ==
  IF lookup_error(code).kind = "raise"
    THEN [request_count |-> request_count + 1,
          error_count |-> error_count + 1,
          emitted |-> Append(emitted,
                        Event("error.lookup_failed", [error_code |-> code])),
          result |-> lookup_error(code)]
    ELSE [request_count |-> request_count + 1,
          error_count |-> error_count,
          emitted |-> Append(emitted,
                        Event("error.looked_up",
                              [error_code |-> lookup_error(code).value.code,
                               error_name |-> lookup_error(code).value.name])),
          result |-> lookup_error(code)]

\* variant: no event is emitted when the classification fell back
async_classify_exception_silent_fallback(exc) ==
  [request_count |-> request_count + 1,
   error_count |-> error_count,
   emitted |->
     IF classify_exception(exc).rule = 0
       THEN emitted
       ELSE Append(emitted,
              Event("error.classified",
                    [error_code |-> classify_exception(exc).result.value.code,
                     error_name |-> classify_exception(exc).result.value.name,
                     category |-> ErrorCategory_value(
                                    classify_exception(exc).result.value.category),
                     retryable |-> classify_exception(exc).result.value.retryable,
                     severity |-> classify_exception(exc).result.value.severity])),
   result |-> classify_exception(exc).result]

\* AsyncErrorRegistry.classify_exception(exc), run to completion.  The inner
\* classify_exception raises only if its lookup does; the event is emitted
\* on the path that has a definition.
async_classify_exception(exc) ==
  [request_count |-> request_count + 1,
   error_count |-> error_count,
   emitted |->
     IF classify_exception(exc).result.kind = "raise"
       THEN emitted
       ELSE Append(emitted,
              Event("error.classified",
                    [error_code |-> classify_exception(exc).result.value.code,
                     error_name |-> classify_exception(exc).result.value.name,
                     category |-> ErrorCategory_value(
                                    classify_exception(exc).result.value.category),
                     retryable |-> classify_exception(exc).result.value.retryable,
                     severity |-> classify_exception(exc).result.value.severity])),
   result |-> classify_exception(exc).result]

\* AsyncErrorRegistry.errors_by_category(category), run to completion
async_errors_by_category(category) ==
  [request_count |-> request_count + 1,
   error_count |-> error_count,
   emitted |-> emitted,
   result |-> Returned(errors_by_category(category))]

(* --------------------- models.py: ErrorRegistry ------------------------- *)

\* ErrorRegistry.register(error): the instance's errors afterwards
ErrorRegistry_register(error) ==
  DictSet(errors, error.code, error)

\* ErrorRegistry.get(code)
ErrorRegistry_get(code) ==
  IF DictHas(errors, code) THEN Returned(DictAt(errors, code)) ELSE ReturnedNone

\* ErrorRegistry.by_category(category)
ErrorRegistry_by_category(category) ==
  FilterCategory(DictValues(errors), category)

\* variant: a single dict object serves as the default of every instance
default_factory_shared(h) ==
  1

\* Field(default_factory=dict): the identity of the dict a new instance
\* gets, an object that did not exist before
default_factory(h) ==
  Len(h) + 1

\* ErrorRegistry.register(error) on the dict d of the instance: d afterwards
ErrorRegistry_register_on(d, error) ==
  DictSet(d, error.code, error)

(* ------------------------------- inputs --------------------------------- *)

CustomCodes ==
  {700 + i : i \in 1..MaxCustomCodes}

\* AgentError values an application constructs for its own registry
CustomErrors ==
  { e \in [code : CustomCodes, category : {"model", "tool"},
           name : {"first", "second"}, description : {"test"},
           retryable : BOOLEAN, severity : {"low", "high"}] :
      /\ AgentErrorValid(e)
      /\ e.retryable = (e.name = "second")
      /\ (e.severity = "high") = (e.name = "second")
      /\ e.category = "tool" => e.name = "second" }

\* the definitions registered on the side-by-side instances: the two
\* application codes of the quickstart, each in two versions
InstanceErrors ==
  {e \in CustomErrors : e.code \in {701, 702} /\ e.category = "model"}

RawCodes ==
  {_RAW_ERRORS[i].code : i \in 1..Len(_RAW_ERRORS)}

TableCodes ==
  {_EXCEPTION_CODE_MAP[i].code : i \in 1..Len(_EXCEPTION_CODE_MAP)}

\* codes looked up: every code of the raw table, unused neighbours of each
\* band, non-positive integers and the application codes
ProbeCodes ==
  RawCodes \cup CustomCodes
    \cup {-9999, -1, 0, 1, 100, 106, 206, 306, 407, 505, 607, 700, 9999}

\* field values AgentError construction is attempted with
RawInputs ==
  [code : {-1, 0, 1, 999}, category : {"model", "tool"}, name : {"test_error"},
   description : {"A test"}, retryable : BOOLEAN,
   severity : {"critical", "high", "medium", "low", "ultra", ""}]

\* assignments made to a field of an AgentError object after construction
Assignments ==
  {<<"severity", "ultra">>, <<"code", 0>>}

\* the details argument: omitted, empty, or a text
DetailsInputs ==
  {None, Some(""), Some("search tool missing")}

\* wall-clock instants at which a response is built
Instants ==
  {[date |-> "2026-01-01", time |-> "00:00:00", microsecond |-> 0],
   [date |-> "2026-01-01", time |-> "12:30:45", microsecond |-> 1500]}

\* the definitions handed to the helpers: those of the built-in registry
BuiltinErrors ==
  {ERROR_REGISTRY[i].value : i \in 1..Len(ERROR_REGISTRY)}

\* codes looked up through the AsyncErrorRegistry
AsyncCodes ==
  {101, 103, 0, 9999}

\* exceptions classified through the AsyncErrorRegistry
AsyncExceptions ==
  {e \in [type : {"TimeoutError", "ConnectionRefusedError", "MyCustomException"},
          message : {"timed out"}] : TRUE}

Messages ==
  {"timed out", "refused"}

Exceptions ==
  [type : ExcTypes, message : Messages]

(* --------------------------- state machine ------------------------------ *)

Init ==
  /\ ~_build_registry.raised
  /\ ERROR_REGISTRY = _build_registry.registry
  /\ errors = <<>>
  /\ socketTimeoutIsAlias \in BOOLEAN
  /\ op = "import"
  /\ arg = <<>>
  /\ result = ReturnedNone
  /\ matchedRule = 0
  /\ registerCalls = <<>>
  /\ dictOf = <<>>
  /\ heap = <<>>
  /\ request_count = 0
  /\ error_count = 0
  /\ emitted = <<>>
  /\ _repo = <<>>
  /\ table = <<>>
  /\ uuids = 0
  /\ clock = 0
  /\ repoCall = "none"
  /\ recorded = <<>>
  /\ bus = <<>>
  /\ calls = <<>>

LookupError(code) ==
  /\ op' = "lookup_error"
  /\ arg' = code
  /\ result' = lookup_error(code)
  /\ ERROR_REGISTRY' = registry_after_get(ERROR_REGISTRY, code)
  /\ matchedRule' = 0
  /\ UNCHANGED <<storeVars, bus, calls, instanceVars, serviceVars, errors, socketTimeoutIsAlias, registerCalls>>

ErrorsByCategory(category) ==
  /\ op' = "errors_by_category"
  /\ arg' = category
  /\ result' = Returned(errors_by_category(category))
  /\ matchedRule' = 0
  /\ UNCHANGED <<storeVars, bus, calls, instanceVars, serviceVars, ERROR_REGISTRY, errors, socketTimeoutIsAlias, registerCalls>>

ClassifyException(exc) ==
  /\ op' = "classify_exception"
  /\ arg' = exc
  /\ result' = classify_exception(exc).result
  /\ matchedRule' = classify_exception(exc).rule
  /\ ERROR_REGISTRY' =
       registry_after_get(ERROR_REGISTRY,
                          IF classify_exception(exc).rule = 0
                            THEN FallbackCode
                            ELSE _EXCEPTION_CODE_MAP[classify_exception(exc).rule].code)
  /\ UNCHANGED <<storeVars, bus, calls, instanceVars, serviceVars, errors, socketTimeoutIsAlias, registerCalls>>

Register(error) ==
  /\ Len(registerCalls) < MaxRegisterCalls
  /\ registerCalls' = Append(registerCalls, error)
  /\ op' = "register"
  /\ arg' = error
  /\ errors' = ErrorRegistry_register(error)
  /\ result' = ReturnedNone
  /\ matchedRule' = 0
  /\ UNCHANGED <<storeVars, bus, calls, instanceVars, serviceVars, ERROR_REGISTRY, socketTimeoutIsAlias>>

Get(code) ==
  /\ op' = "get"
  /\ arg' = code
  /\ result' = ErrorRegistry_get(code)
  /\ matchedRule' = 0
  /\ UNCHANGED <<storeVars, bus, calls, instanceVars, serviceVars, ERROR_REGISTRY, errors, socketTimeoutIsAlias, registerCalls>>

ByCategory(category) ==
  /\ op' = "by_category"
  /\ arg' = category
  /\ result' = Returned(ErrorRegistry_by_category(category))
  /\ matchedRule' = 0
  /\ UNCHANGED <<storeVars, bus, calls, instanceVars, serviceVars, ERROR_REGISTRY, errors, socketTimeoutIsAlias, registerCalls>>

\* AgentError(**raw)
Construct(raw) ==
  /\ op' = "AgentError"
  /\ arg' = raw
  /\ result' = AgentError_init(raw)
  /\ matchedRule' = 0
  /\ UNCHANGED <<storeVars, bus, calls, instanceVars, serviceVars, ERROR_REGISTRY, errors, socketTimeoutIsAlias, registerCalls>>

\* error.<field> = value, through the reference the caller kept to the
\* object it registered under code
SetAttr(code, field, value) ==
  /\ DictHas(errors, code)
  /\ op' = "setattr"
  /\ arg' = <<code, field, value>>
  /\ errors' = [errors EXCEPT ![DictIndex(errors, code)].value =
                  AgentError_setattr(@, field, value)]
  /\ result' = ReturnedNone
  /\ matchedRule' = 0
  /\ UNCHANGED <<storeVars, bus, calls, instanceVars, serviceVars, ERROR_REGISTRY, socketTimeoutIsAlias, registerCalls>>

\* codes probed on the custom registry: the application codes, one
\* application code that is never registered, a built-in code and non-codes
GetCodes ==
  CustomCodes \cup {700 + MaxCustomCodes + 1, -1, 0, 101, 9999}

\* the built-in registry and the classifier
Next ==
  \/ \E code \in ProbeCodes : LookupError(code)
  \/ \E category \in Categories : ErrorsByCategory(category)
  \/ \E exc \in Exceptions : ClassifyException(exc)

Spec ==
  Init /\ [][Next]_vars

\* a custom ErrorRegistry instance
NextRegistry ==
  \/ \E error \in CustomErrors : Register(error)
  \/ \E code \in GetCodes : Get(code)
  \/ \E category \in Categories : ByCategory(category)

SpecRegistry ==
  Init /\ [][NextRegistry]_vars

\* ErrorRegistry(): a new instance whose errors field is the default
NewRegistry ==
  /\ Len(dictOf) < MaxInstances
  /\ dictOf' = Append(dictOf, default_factory(heap))
  /\ heap' = IF default_factory(heap) > Len(heap) THEN Append(heap, <<>>) ELSE heap
  /\ op' = "ErrorRegistry"
  /\ arg' = <<>>
  /\ result' = Returned(Len(dictOf) + 1)
  /\ matchedRule' = 0
  /\ UNCHANGED <<storeVars, bus, calls, serviceVars, ERROR_REGISTRY, errors, socketTimeoutIsAlias, registerCalls>>

\* instance.register(error) on the i-th instance created
RegisterOn(i, error) ==
  /\ i \in 1..Len(dictOf)
  /\ heap' = [heap EXCEPT ![dictOf[i]] = ErrorRegistry_register_on(@, error)]
  /\ op' = "register_on"
  /\ arg' = [instance |-> i, error |-> error]
  /\ result' = ReturnedNone
  /\ matchedRule' = 0
  /\ UNCHANGED <<storeVars, bus, calls, dictOf, serviceVars, ERROR_REGISTRY, errors, socketTimeoutIsAlias,
                 registerCalls>>

\* several ErrorRegistry instances side by side
NextInstances ==
  \/ NewRegistry
  \/ \E i \in 1..MaxInstances, error \in InstanceErrors : RegisterOn(i, error)

SpecInstances ==
  Init /\ [][NextInstances]_vars

\* create_error_response(error, details)
CreateErrorResponse(error, details, now) ==
  /\ op' = "create_error_response"
  /\ arg' = [error |-> error, details |-> details]
  /\ result' = Returned(create_error_response(error, details, now))
  /\ matchedRule' = 0
  /\ UNCHANGED <<storeVars, bus, calls, instanceVars, serviceVars, ERROR_REGISTRY, errors,
                 socketTimeoutIsAlias, registerCalls>>

\* raise AgentErrorException(error, details), caught by the caller
RaiseAgentErrorException(error, details) ==
  /\ op' = "AgentErrorException"
  /\ arg' = [error |-> error, details |-> details]
  /\ result' = Raised(AgentErrorException_init(error, details))
  /\ matchedRule' = 0
  /\ UNCHANGED <<storeVars, bus, calls, instanceVars, serviceVars, ERROR_REGISTRY, errors,
                 socketTimeoutIsAlias, registerCalls>>

\* the response and exception-wrapper helpers
NextHelpers ==
  \/ \E error \in BuiltinErrors, details \in DetailsInputs, now \in Instants :
       CreateErrorResponse(error, details, now)
  \/ \E error \in BuiltinErrors, details \in DetailsInputs :
       RaiseAgentErrorException(error, details)

SpecHelpers ==
  Init /\ [][NextHelpers]_vars

\* await registry.lookup_error(code)
AsyncLookupError(code) ==
  /\ request_count < MaxRequests
  /\ op' = "async.lookup_error"
  /\ arg' = code
  /\ request_count' = async_lookup_error(code).request_count
  /\ error_count' = async_lookup_error(code).error_count
  /\ emitted' = async_lookup_error(code).emitted
  /\ result' = async_lookup_error(code).result
  /\ matchedRule' = 0
  /\ UNCHANGED <<storeVars, bus, calls, instanceVars, ERROR_REGISTRY, errors, socketTimeoutIsAlias,
                 registerCalls>>

\* await registry.classify_exception(exc)
AsyncClassifyException(exc) ==
  /\ request_count < MaxRequests
  /\ op' = "async.classify_exception"
  /\ arg' = exc
  /\ request_count' = async_classify_exception(exc).request_count
  /\ error_count' = async_classify_exception(exc).error_count
  /\ emitted' = async_classify_exception(exc).emitted
  /\ result' = async_classify_exception(exc).result
  /\ matchedRule' = classify_exception(exc).rule
  /\ UNCHANGED <<storeVars, bus, calls, instanceVars, ERROR_REGISTRY, errors, socketTimeoutIsAlias,
                 registerCalls>>

\* await registry.errors_by_category(category)
AsyncErrorsByCategory(category) ==
  /\ request_count < MaxRequests
  /\ op' = "async.errors_by_category"
  /\ arg' = category
  /\ request_count' = async_errors_by_category(category).request_count
  /\ error_count' = async_errors_by_category(category).error_count
  /\ emitted' = async_errors_by_category(category).emitted
  /\ result' = async_errors_by_category(category).result
  /\ matchedRule' = 0
  /\ UNCHANGED <<storeVars, bus, calls, instanceVars, ERROR_REGISTRY, errors, socketTimeoutIsAlias,
                 registerCalls>>

\* one AsyncErrorRegistry, its calls awaited one after the other
NextAsync ==
  \/ \E code \in AsyncCodes : AsyncLookupError(code)
  \/ \E exc \in AsyncExceptions : AsyncClassifyException(exc)
  \/ \E category \in {"security", "data"} : AsyncErrorsByCategory(category)

SpecAsync ==
  Init /\ [][NextAsync]_vars

\* the four module-level functions of core.py that read the built-in registry
NextCore ==
  \/ \E code \in ProbeCodes : LookupError(code)
  \/ \E category \in Categories : ErrorsByCategory(category)
  \/ \E exc \in Exceptions : ClassifyException(exc)
  \/ \E error \in BuiltinErrors, details \in DetailsInputs, now \in Instants :
       CreateErrorResponse(error, details, now)

SpecCore ==
  Init /\ [][NextCore]_vars

\* construction of AgentError objects
NextAgentError ==
  \E raw \in RawInputs : Construct(raw)

SpecAgentError ==
  Init /\ [][NextAgentError]_vars

\* AgentError objects held by a custom registry: registration and later
\* assignment to their fields
NextDefinitions ==
  \/ \E error \in CustomErrors : Register(error)
  \/ \E code \in CustomCodes, a \in Assignments : SetAttr(code, a[1], a[2])

SpecDefinitions ==
  Init /\ [][NextDefinitions]_vars

(* --------------- suggestions.py: recovery suggestions ------------------- *)

\* RecoverySuggestion(suggestion=..., confidence=..., steps=..., references=...)
RecoverySuggestion(suggestion, confidence, steps, references) ==
  [suggestion |-> suggestion, confidence |-> confidence, steps |-> steps,
   references |-> references]

_STATIC_SUGGESTIONS ==
  <<
    [key |-> 101,
     value |-> RecoverySuggestion(
         "Verify the model identifier and ensure the provider has it available.",
         "high",
         <<"Check that the model_id matches an active model in the provider dashboard.",
         "Update the model configuration to a currently available model.",
         "Confirm the account has access to the requested model tier.">>,
         <<"https://docs.aumai.dev/errors/101">>)],
    [key |-> 102,
     value |-> RecoverySuggestion(
         "Reduce the input size or enable context-window chunking.",
         "high",
         <<"Measure the token count of the prompt before sending.",
         "Truncate or summarise historical context to fit within the limit.",
         "Consider using a model with a larger context window.">>,
         <<"https://docs.aumai.dev/errors/102">>)],
    [key |-> 103,
     value |-> RecoverySuggestion(
         "Retry the request with an exponential back-off strategy.",
         "high",
         <<"Wait at least 2 seconds before the first retry.",
         "Use exponential back-off with jitter for subsequent retries.",
         "Set a maximum retry budget (e.g., 3 attempts).",
         "Alert if retries are exhausted without success.">>,
         <<"https://docs.aumai.dev/errors/103">>)],
    [key |-> 104,
     value |-> RecoverySuggestion(
         "Back off and retry after the rate-limit reset window expires.",
         "high",
         <<"Inspect the Retry-After header in the provider response.",
         "Implement token-bucket or leaky-bucket rate limiting client-side.",
         "Consider distributing load across multiple API keys if permitted.">>,
         <<"https://docs.aumai.dev/errors/104">>)],
    [key |-> 105,
     value |-> RecoverySuggestion(
         "Retry with a clearer prompt that enforces the expected output schema.",
         "medium",
         <<"Add a JSON schema or structured-output instruction to the system prompt.",
         "Enable provider-level JSON mode if available.",
         "Validate the output against the schema and retry if parsing fails.">>,
         <<"https://docs.aumai.dev/errors/105">>)],
    [key |-> 201,
     value |-> RecoverySuggestion(
         "Register the missing tool before invoking the agent.",
         "high",
         <<"Check the tool registry for the expected tool name.",
         "Ensure the tool package is installed and imported.",
         "Restart the agent after registering the missing tool.">>,
         <<"https://docs.aumai.dev/errors/201">>)],
    [key |-> 202,
     value |-> RecoverySuggestion(
         "Wrap the tool in defensive error handling and retry.",
         "medium",
         <<"Add try/except inside the tool implementation.",
         "Log the full stack trace for post-mortem analysis.",
         "Retry the tool invocation if the error is transient.">>,
         <<"https://docs.aumai.dev/errors/202">>)],
    [key |-> 203,
     value |-> RecoverySuggestion(
         "Fix the input schema and validate arguments before tool invocation.",
         "high",
         <<"Review the tool's input schema documentation.",
         "Add Pydantic validation at the call site.",
         "Return a structured error to the agent so it can self-correct.">>,
         <<"https://docs.aumai.dev/errors/203">>)],
    [key |-> 301,
     value |-> RecoverySuggestion(
         "Refresh or reissue credentials and re-authenticate.",
         "high",
         <<"Check credential expiry timestamps.",
         "Rotate the API key or JWT token.",
         "Verify that environment variables are correctly injected.">>,
         <<"https://docs.aumai.dev/errors/301">>)],
    [key |-> 302,
     value |-> RecoverySuggestion(
         "Grant the required permissions to the agent's identity.",
         "high",
         <<"Review the IAM or RBAC policy for the agent role.",
         "Add the required permission or scope.",
         "Avoid granting blanket admin permissions; use least-privilege.">>,
         <<"https://docs.aumai.dev/errors/302">>)],
    [key |-> 401,
     value |-> RecoverySuggestion(
         "Reduce memory usage or increase the resource limit.",
         "medium",
         <<"Profile memory usage to identify the largest allocations.",
         "Process data in smaller batches.",
         "Increase container/VM memory limits if the workload requires it.">>,
         <<"https://docs.aumai.dev/errors/401">>)],
    [key |-> 404,
     value |-> RecoverySuggestion(
         "Check network connectivity and retry with back-off.",
         "high",
         <<"Ping the target endpoint to verify reachability.",
         "Review firewall and VPC routing rules.",
         "Implement retry logic with exponential back-off.">>,
         <<"https://docs.aumai.dev/errors/404">>)],
    [key |-> 501,
     value |-> RecoverySuggestion(
         "Increase the iteration budget or redesign the task decomposition.",
         "medium",
         <<"Analyse the agent's reasoning trace to find the loop.",
         "Increase max_iterations if the task is legitimately complex.",
         "Add a termination condition to the agent's planning step.">>,
         <<"https://docs.aumai.dev/errors/501">>)],
    [key |-> 601,
     value |-> RecoverySuggestion(
         "Validate the data against the expected schema before processing.",
         "high",
         <<"Add a Pydantic validation step at the data ingestion boundary.",
         "Log the invalid payload for debugging.",
         "Return a structured error to the upstream caller.">>,
         <<"https://docs.aumai.dev/errors/601">>)],
    [key |-> 604,
     value |-> RecoverySuggestion(
         "Redact or remove PII before passing data to the agent.",
         "high",
         <<"Run a PII detection scan on all input data.",
         "Replace detected PII with placeholder tokens.",
         "Review data handling policies and update consent records.">>,
         <<"https://docs.aumai.dev/errors/604">>)]
  >>

\* keyed by ErrorCategory member
_CATEGORY_STATIC_SUGGESTIONS ==
  <<
    [key |-> "model",
     value |-> RecoverySuggestion(
         "Investigate the model provider configuration and retry.",
         "low",
         <<"Review the model configuration for the failing agent.",
         "Check the provider status page for outages.",
         "Retry the operation after verifying the configuration.">>,
         <<>>)],
    [key |-> "tool",
     value |-> RecoverySuggestion(
         "Inspect the tool registry and fix the failing tool.",
         "low",
         <<"List all registered tools and verify the expected tool is present.",
         "Review the tool's error logs for root-cause details.",
         "Fix the tool implementation and redeploy.">>,
         <<>>)],
    [key |-> "security",
     value |-> RecoverySuggestion(
         "Review the agent's security policy and credentials.",
         "low",
         <<"Audit the agent's permissions and role assignments.",
         "Rotate all credentials involved in the failing operation.",
         "Escalate to the security team if a breach is suspected.">>,
         <<>>)],
    [key |-> "resource",
     value |-> RecoverySuggestion(
         "Free resources or scale the agent's environment.",
         "low",
         <<"Profile the agent's resource consumption.",
         "Reduce batch sizes to lower peak resource usage.",
         "Scale up the agent's compute allocation.">>,
         <<>>)],
    [key |-> "orchestration",
     value |-> RecoverySuggestion(
         "Simplify the agent's task graph and add loop guards.",
         "low",
         <<"Visualise the task dependency graph.",
         "Add explicit termination conditions to all loops.",
         "Limit the maximum depth of recursive sub-task calls.">>,
         <<>>)],
    [key |-> "data",
     value |-> RecoverySuggestion(
         "Validate data at all system boundaries.",
         "low",
         <<"Add schema validation at the data ingestion point.",
         "Log raw payloads for inspection.",
         "Sanitise and normalise inputs before processing.">>,
         <<>>)]
  >>

\* the RecoverySuggestion built on the last lines of _static_suggestion
GenericSuggestion ==
  RecoverySuggestion(
    "Review the agent logs and consult the AumAI error taxonomy documentation.",
    "low",
    <<"Inspect the agent's structured error response for details.",
      "Cross-reference the error code with the AumAI error taxonomy.",
      "Escalate to the engineering team if the issue persists.">>,
    <<"https://docs.aumai.dev/errors">>)

\* variant: the per-category table is consulted before the per-code table
_static_suggestion_category_first(error_code) ==
  IF /\ DictHas(ERROR_REGISTRY, error_code)
     /\ DictHas(_CATEGORY_STATIC_SUGGESTIONS,
                DictAt(ERROR_REGISTRY, error_code).category)
    THEN DictAt(_CATEGORY_STATIC_SUGGESTIONS,
                DictAt(ERROR_REGISTRY, error_code).category)
    ELSE IF DictHas(_STATIC_SUGGESTIONS, error_code)
      THEN DictAt(_STATIC_SUGGESTIONS, error_code)
      ELSE GenericSuggestion

\* RecoverySuggester._static_suggestion(error_code): the per-code table, then
\* the per-category table for a code of the built-in registry, then the
\* generic suggestion
_static_suggestion(error_code) ==
  IF DictHas(_STATIC_SUGGESTIONS, error_code)
    THEN DictAt(_STATIC_SUGGESTIONS, error_code)
    ELSE IF /\ DictHas(ERROR_REGISTRY, error_code)
            /\ DictHas(_CATEGORY_STATIC_SUGGESTIONS,
                       DictAt(ERROR_REGISTRY, error_code).category)
      THEN DictAt(_CATEGORY_STATIC_SUGGESTIONS,
                  DictAt(ERROR_REGISTRY, error_code).category)
      ELSE GenericSuggestion

(* A JSON value is a record [type, v, members]: v holds the text of a      *)
(* string, the digits of a number or the string elements of an array;      *)
(* members is the dict of an object.  The text an LLM returns is a         *)
(* sequence of lines [text, doc]: a line that starts with three backticks  *)
(* ("fence"), a line of prose, or a JSON document ("json", with the value  *)
(* json.loads yields for it).                                              *)

JString(text) ==
  [type |-> "string", v |-> <<text>>, members |-> <<>>]

JNumber(digits) ==
  [type |-> "number", v |-> <<digits>>, members |-> <<>>]

JNull ==
  [type |-> "null", v |-> <<>>, members |-> <<>>]

JArray(strings) ==
  [type |-> "array", v |-> strings, members |-> <<>>]

JObject(members) ==
  [type |-> "object", v |-> <<>>, members |-> members]

FenceLine ==
  [text |-> "fence", doc |-> JNull]

ProseLine ==
  [text |-> "prose", doc |-> JNull]

JsonLine(doc) ==
  [text |-> "json", doc |-> doc]

\* str(value) of the Python object json.loads yields for a string, a number
\* or null
py_str(value) ==
  CASE value.type = "string" -> value.v[1]
    [] value.type = "number" -> value.v[1]
    [] value.type = "null" -> "None"

\* str.lower() on the confidence texts of the inputs
lower(text) ==
  CASE text = "HIGH" -> "high"
    [] text = "Medium" -> "medium"
    [] text = "None" -> "none"
    [] OTHER -> text

\* stripped.startswith("```") and "\n".join(lines[1:-1]).strip(): the lines
\* between the first and the last one
strip_fences(lines) ==
  IF lines # <<>> /\ lines[1].text = "fence"
    THEN SubSeq(lines, 2, Len(lines) - 1)
    ELSE lines

\* json.loads(stripped): the text must be exactly one JSON document
json_loads(lines) ==
  IF Len(lines) = 1 /\ lines[1].text = "json"
    THEN Returned(lines[1].doc)
    ELSE Raised("json.JSONDecodeError")

\* a value pydantic accepts for a list[str] field
IsListOfStr(value) ==
  value.type = "array"

\* RecoverySuggestion.model_validate(data): suggestion and confidence are
\* required strings, steps and references default to the empty list
RecoverySuggestion_model_validate(data) ==
  IF \/ ~DictHas(data, "suggestion")
     \/ ~DictHas(data, "confidence")
    THEN Raised("pydantic.ValidationError")
    ELSE IF \/ DictAt(data, "suggestion").type # "string"
            \/ DictAt(data, "confidence").type # "string"
            \/ DictHas(data, "steps") /\ ~IsListOfStr(DictAt(data, "steps"))
            \/ /\ DictHas(data, "references")
               /\ ~IsListOfStr(DictAt(data, "references"))
      THEN Raised("pydantic.ValidationError")
      ELSE Returned(RecoverySuggestion(
             DictAt(data, "suggestion").v[1],
             DictAt(data, "confidence").v[1],
             IF DictHas(data, "steps") THEN DictAt(data, "steps").v ELSE <<>>,
             IF DictHas(data, "references")
               THEN DictAt(data, "references").v ELSE <<>>))

\* variant: the lowered text is kept whatever it is
normalised_confidence_unchecked(data) ==
  IF DictHas(data, "confidence")
    THEN lower(py_str(DictAt(data, "confidence")))
    ELSE "low"

\* str(data.get("confidence", "low")).lower(), replaced by "low" when it is
\* not one of the three levels
normalised_confidence(data) ==
  LET raw_confidence ==
        IF DictHas(data, "confidence")
          THEN lower(py_str(DictAt(data, "confidence")))
          ELSE "low"
  IN  IF raw_confidence \in {"high", "medium", "low"}
        THEN raw_confidence
        ELSE "low"

\* RecoverySuggester._parse_response(content)
_parse_response(content) ==
  LET data == json_loads(strip_fences(content))
  IN  IF data.kind = "raise"
        THEN data
        ELSE IF data.value.type # "object"
          THEN Raised("ValueError")
          ELSE RecoverySuggestion_model_validate(
                 DictSet(data.value.members, "confidence",
                         JString(normalised_confidence(data.value.members))))

\* RecoverySuggester._build_user_prompt(error_code, context, agent_id): the
\* parts joined by newlines
_build_user_prompt(error_code, context, agent_id) ==
  <<"Agent error code: " \o ToString(error_code)>>
  \o (IF agent_id # "" THEN <<"Agent ID: " \o agent_id>> ELSE <<>>)
  \o (IF context # "" THEN <<"Context: " \o context>> ELSE <<>>)
  \o <<"Please provide a structured JSON recovery suggestion for this error.">>

\* what awaiting self._client.complete(request) does: it returns a response
\* with some text, or raises
Response(content) ==
  [kind |-> "return", content |-> content, error |-> ""]

Failure(exc_type) ==
  [kind |-> "raise", content |-> <<>>, error |-> exc_type]

\* RecoverySuggester._suggest_via_llm: completion is what awaiting
\* self._client.complete(request) does, a response or an exception
_suggest_via_llm(completion) ==
  IF completion.kind = "raise"
    THEN Raised(completion.error)
    ELSE _parse_response(completion.content)

\* variant: only a failure of the LLM call itself is caught
suggest_parse_outside_try(error_code, completion) ==
  IF completion.kind = "raise"
    THEN IF isinstance(completion.error, "Exception")
           THEN Returned(_static_suggestion(error_code))
           ELSE Raised(completion.error)
    ELSE _parse_response(completion.content)

\* RecoverySuggester.suggest(error_code, context, agent_id): except Exception
\* catches what _suggest_via_llm raises unless it is only a BaseException
suggest(error_code, completion) ==
  LET attempt == _suggest_via_llm(completion)
  IN  IF attempt.kind = "raise"
        THEN IF isinstance(attempt.value, "Exception")
               THEN Returned(_static_suggestion(error_code))
               ELSE attempt
        ELSE attempt

\* the JSON documents an LLM answers with
SuggestionMember ==
  [key |-> "suggestion", value |-> JString("Restart the agent.")]

StepsMember ==
  [key |-> "steps",
   value |-> JArray(<<"Stop the agent.", "Start the agent.">>)]

Documents ==
  { JObject(<<SuggestionMember,
              [key |-> "confidence", value |-> JString("HIGH")],
              StepsMember,
              [key |-> "references",
               value |-> JArray(<<"https://example.com/kb">>)]>>),
    JObject(<<SuggestionMember>>),
    JObject(<<SuggestionMember,
              [key |-> "confidence", value |-> JString("Medium")]>>),
    JObject(<<SuggestionMember,
              [key |-> "confidence", value |-> JString("certain")]>>),
    JObject(<<SuggestionMember,
              [key |-> "confidence", value |-> JNull]>>),
    JObject(<<SuggestionMember,
              [key |-> "confidence", value |-> JNumber("1")]>>),
    JObject(<<SuggestionMember,
              [key |-> "steps", value |-> JString("Stop the agent.")]>>),
    JObject(<<[key |-> "suggestion", value |-> JNumber("42")]>>),
    JObject(<<[key |-> "confidence", value |-> JString("high")],
              StepsMember>>),
    JObject(<<>>),
    JArray(<<"Restart the agent.">>),
    JString("Restart the agent."),
    JNull }

FencedDocument ==
  JObject(<<SuggestionMember,
            [key |-> "confidence", value |-> JString("low")]>>)

\* the texts an LLM answers with: a bare document, a document between code
\* fences, a document after an opening fence only, a lone fence line, prose,
\* prose followed by a document, and the empty text
ResponseTexts ==
  {<<JsonLine(doc)>> : doc \in Documents}
  \cup { <<FenceLine, JsonLine(FencedDocument), FenceLine>>,
         <<FenceLine, JsonLine(FencedDocument)>>,
         <<FenceLine>>,
         <<ProseLine>>,
         <<ProseLine, JsonLine(FencedDocument)>>,
         <<>> }

\* what awaiting the client's complete() does: a response with some text, an
\* error of the client, or an interrupt delivered while waiting
Completions ==
  {Response(content) : content \in ResponseTexts}
  \cup {Failure(t) : t \in {"TimeoutError", "RuntimeError", "KeyboardInterrupt"}}

\* 103 has a per-code suggestion, 205 and 606 only a per-category one, 9999
\* is not in the registry
SuggestCodes ==
  {103, 205, 606, 9999}

Contexts ==
  {"", "model timed out"}

AgentIds ==
  {"", "agent-1"}

\* await suggester.suggest(error_code, context, agent_id) with a client whose
\* complete() ends as completion
Suggest(error_code, context, agent_id, completion) ==
  /\ op' = "suggest"
  /\ arg' = [error_code |-> error_code,
             prompt |-> _build_user_prompt(error_code, context, agent_id),
             completion |-> completion]
  /\ result' = suggest(error_code, completion)
  /\ matchedRule' = 0
  /\ UNCHANGED <<storeVars, bus, calls, instanceVars, serviceVars, ERROR_REGISTRY, errors,
                 socketTimeoutIsAlias, registerCalls>>

\* codes suggest_static is called with: the codes above, further codes of
\* the per-code table, a code of each remaining category, and non-codes
StaticCodes ==
  SuggestCodes \cup {101, 105, 604, 303, 402, 502, -1, 0, 700}

\* RecoverySuggester.suggest_static(error_code)
suggest_static(error_code) ==
  Returned(_static_suggestion(error_code))

\* suggester.suggest_static(error_code)
SuggestStatic(error_code) ==
  /\ op' = "suggest_static"
  /\ arg' = [error_code |-> error_code]
  /\ result' = suggest_static(error_code)
  /\ matchedRule' = 0
  /\ UNCHANGED <<storeVars, bus, calls, instanceVars, serviceVars, ERROR_REGISTRY, errors,
                 socketTimeoutIsAlias, registerCalls>>

\* RecoverySuggester.suggest_for_error(error, context, agent_id)
suggest_for_error(error, completion) ==
  suggest(error.code, completion)

\* the classified errors suggest_for_error is called with
SuggestErrors ==
  {DictAt(ERROR_REGISTRY, code) :
     code \in {c \in SuggestCodes : DictHas(ERROR_REGISTRY, c)}}

\* await suggester.suggest_for_error(error, context, agent_id) with a client
\* whose complete() ends as completion
SuggestForError(error, context, agent_id, completion) ==
  /\ op' = "suggest_for_error"
  /\ arg' = [error_code |-> error.code,
             prompt |-> _build_user_prompt(error.code, context, agent_id),
             completion |-> completion]
  /\ result' = suggest_for_error(error, completion)
  /\ matchedRule' = 0
  /\ UNCHANGED <<storeVars, bus, calls, instanceVars, serviceVars, ERROR_REGISTRY,
                 errors, socketTimeoutIsAlias, registerCalls>>

NextSuggest ==
  \/ \E error_code \in SuggestCodes, context \in Contexts,
        agent_id \in AgentIds, completion \in Completions :
       Suggest(error_code, context, agent_id, completion)
  \/ \E error_code \in StaticCodes : SuggestStatic(error_code)
  \/ \E error \in SuggestErrors, context \in Contexts,
        agent_id \in AgentIds, completion \in Completions :
       SuggestForError(error, context, agent_id, completion)

SpecSuggest ==
  Init /\ [][NextSuggest]_vars

(* -------------------- store.py: error occurrences ----------------------- *)
(* A text that is compared or sorted is a sequence of its characters.  A    *)
(* datetime is a record of its fields with the offset of its time zone from *)
(* UTC in minutes.  The repository of aumai-store is modelled by the        *)
(* behaviour the tests of the store rely on: save adds the row and returns  *)
(* its id, get returns the row or None, delete tells whether it removed a   *)
(* row, count and all read the rows.                                        *)

RECURSIVE Digits(_, _)
\* the last width decimal digits of n, as characters
Digits(n, width) ==
  IF width = 0
    THEN <<>>
    ELSE Digits(n \div 10, width - 1) \o <<ToString(n % 10)>>

\* the "+HH:MM" or "-HH:MM" that isoformat ends with
utcoffset_text(minutes) ==
  LET magnitude == IF minutes < 0 THEN 0 - minutes ELSE minutes
  IN  <<IF minutes < 0 THEN "-" ELSE "+">>
        \o Digits(magnitude \div 60, 2) \o <<":">> \o Digits(magnitude % 60, 2)

\* datetime.isoformat() of an aware datetime: the fraction is left out when
\* the microsecond is zero
datetime_isoformat(dt) ==
  Digits(dt.year, 4) \o <<"-">> \o Digits(dt.month, 2) \o <<"-">>
    \o Digits(dt.day, 2) \o <<"T">> \o Digits(dt.hour, 2) \o <<":">>
    \o Digits(dt.minute, 2) \o <<":">> \o Digits(dt.second, 2)
    \o (IF dt.microsecond = 0 THEN <<>> ELSE <<".">> \o Digits(dt.microsecond, 6))
    \o utcoffset_text(dt.utcoffset)

\* datetime.now(tz=timezone.utc) when the clock reads reading half seconds
datetime_now(reading) ==
  [year |-> 2026, month |-> 1, day |-> 1, hour |-> 0, minute |-> 0,
   second |-> reading \div 2, microsecond |-> 500000 * (reading % 2),
   utcoffset |-> 0]

\* the code points of the characters a timestamp is made of
Ord ==
  [c \in {"+", "-", ".", "0", "1", "2", "3", "4", "5", "6", "7", "8", "9",
          ":", "T"} |->
     CASE c = "+" -> 43 [] c = "-" -> 45 [] c = "." -> 46 [] c = "0" -> 48
       [] c = "1" -> 49 [] c = "2" -> 50 [] c = "3" -> 51 [] c = "4" -> 52
       [] c = "5" -> 53 [] c = "6" -> 54 [] c = "7" -> 55 [] c = "8" -> 56
       [] c = "9" -> 57 [] c = ":" -> 58 [] c = "T" -> 84]

RECURSIVE str_lt(_, _)
\* a < b for two str values: the first differing character decides, a proper
\* prefix is smaller
str_lt(a, b) ==
  IF b = <<>>
    THEN FALSE
    ELSE IF a = <<>>
      THEN TRUE
      ELSE IF Ord[Head(a)] # Ord[Head(b)]
        THEN Ord[Head(a)] < Ord[Head(b)]
        ELSE str_lt(Tail(a), Tail(b))

\* str(uuid.uuid4()) for the n-th value drawn
uuid4(n) ==
  "uuid-" \o ToString(n)

\* ErrorOccurrence(error_code=..., agent_id=..., context=..., stack_trace=...,
\* timestamp=...): the id is drawn by the default factory
ErrorOccurrence(id, error_code, agent_id, context, stack_trace, timestamp) ==
  [id |-> id, error_code |-> error_code, timestamp |-> timestamp,
   agent_id |-> agent_id, context |-> context, stack_trace |-> stack_trace]

\* Repository.save(occurrence): the rows afterwards
Repository_save(rows, occurrence) ==
  Append(SelectSeq(rows, LAMBDA row : row.id # occurrence.id), occurrence)

\* Repository.get(id)
Repository_get(rows, id) ==
  IF \E i \in 1..Len(rows) : rows[i].id = id
    THEN Returned(rows[CHOOSE i \in 1..Len(rows) : rows[i].id = id])
    ELSE ReturnedNone

\* Repository.delete(id): the rows afterwards and the value returned
Repository_delete(rows, id) ==
  [rows |-> SelectSeq(rows, LAMBDA row : row.id # id),
   deleted |-> \E i \in 1..Len(rows) : rows[i].id = id]

\* Repository.count()
Repository_count(rows) ==
  Len(rows)

\* Repository.all(limit=..., offset=...)
Repository_all(rows, limit, offset) ==
  SubSeq(rows, offset + 1,
         IF offset + limit < Len(rows) THEN offset + limit ELSE Len(rows))

\* variant: the store handle is tested instead of the repository
_ensure_ready_tests_store ==
  ReturnedNone

\* ErrorStore._ensure_ready()
_ensure_ready ==
  IF _repo = None THEN Raised("RuntimeError") ELSE ReturnedNone

\* assert self._repo is not None
assert_repo ==
  IF _repo = None THEN Raised("AssertionError") ELSE ReturnedNone

\* what an operation of the store does: its outcome, the rows and the number
\* of uuids drawn afterwards, and the repository method it called
StoreEffect(outcome, rows, drawn, called) ==
  [result |-> outcome, table |-> rows, uuids |-> drawn, repoCall |-> called]

\* an operation that is _ensure_ready(), the assert, and then one read of
\* the repository
StoreRead(outcome, called) ==
  IF _ensure_ready.kind = "raise"
    THEN StoreEffect(_ensure_ready, table, uuids, "none")
    ELSE IF assert_repo.kind = "raise"
      THEN StoreEffect(assert_repo, table, uuids, "none")
      ELSE StoreEffect(outcome, table, uuids, called)

\* variant: the context and the agent id change places
record_error_swapped(error_code, agent_id, context, stack_trace, timestamp) ==
  IF _ensure_ready.kind = "raise"
    THEN StoreEffect(_ensure_ready, table, uuids, "none")
    ELSE
      LET effective_ts ==
            IF timestamp # None
              THEN datetime_isoformat(timestamp[1])
              ELSE datetime_isoformat(datetime_now(clock))
          occurrence ==
            ErrorOccurrence(uuid4(uuids + 1), error_code, context, agent_id,
                            stack_trace, effective_ts)
      IN  IF assert_repo.kind = "raise"
            THEN StoreEffect(assert_repo, table, uuids + 1, "none")
            ELSE StoreEffect(Returned(occurrence.id),
                             Repository_save(table, occurrence),
                             uuids + 1, "save")

\* ErrorStore.record_error(error_code, agent_id, context, stack_trace,
\* timestamp)
record_error(error_code, agent_id, context, stack_trace, timestamp) ==
  IF _ensure_ready.kind = "raise"
    THEN StoreEffect(_ensure_ready, table, uuids, "none")
    ELSE
      LET effective_ts ==
            IF timestamp # None
              THEN datetime_isoformat(timestamp[1])
              ELSE datetime_isoformat(datetime_now(clock))
          occurrence ==
            ErrorOccurrence(uuid4(uuids + 1), error_code, agent_id, context,
                            stack_trace, effective_ts)
      IN  IF assert_repo.kind = "raise"
            THEN StoreEffect(assert_repo, table, uuids + 1, "none")
            ELSE StoreEffect(Returned(occurrence.id),
                             Repository_save(table, occurrence),
                             uuids + 1, "save")

\* ErrorStore.record_agent_error(error, agent_id, context, stack_trace)
record_agent_error(error, agent_id, context, stack_trace) ==
  record_error(error.code, agent_id, context, stack_trace, None)

\* ErrorStore.delete_occurrence(occurrence_id)
delete_occurrence(occurrence_id) ==
  IF _ensure_ready.kind = "raise"
    THEN StoreEffect(_ensure_ready, table, uuids, "none")
    ELSE IF assert_repo.kind = "raise"
      THEN StoreEffect(assert_repo, table, uuids, "none")
      ELSE StoreEffect(Returned(Repository_delete(table, occurrence_id).deleted),
                       Repository_delete(table, occurrence_id).rows,
                       uuids, "delete")

\* ErrorStore.get_occurrence(occurrence_id)
get_occurrence(occurrence_id) ==
  StoreRead(Repository_get(table, occurrence_id), "get")

\* ErrorStore.get_errors_by_agent(agent_id): Repository.find(agent_id=...)
get_errors_by_agent(agent_id) ==
  StoreRead(Returned(SelectSeq(table, LAMBDA row : row.agent_id = agent_id)),
            "find")

\* ErrorStore.get_errors_by_code(error_code): Repository.find(error_code=...)
get_errors_by_code(error_code) ==
  StoreRead(Returned(SelectSeq(table, LAMBDA row : row.error_code = error_code)),
            "find")

\* the limit ErrorStore passes to Repository.all when it reads every row
ReadAllLimit ==
  100000

RECURSIVE frequency_loop(_, _)
\* the for loop of get_error_frequency over the occurrences
frequency_loop(occurrences, frequency) ==
  IF occurrences = <<>>
    THEN frequency
    ELSE frequency_loop(
           Tail(occurrences),
           DictSet(frequency, Head(occurrences).error_code,
                   (IF DictHas(frequency, Head(occurrences).error_code)
                      THEN DictAt(frequency, Head(occurrences).error_code)
                      ELSE 0) + 1))

\* ErrorStore.get_error_frequency()
get_error_frequency ==
  StoreRead(Returned(frequency_loop(Repository_all(table, ReadAllLimit, 0), <<>>)),
            "all")

RECURSIVE insert_by_timestamp(_, _)
\* one step of the stable sort by timestamp, largest first: the occurrence
\* goes behind every one whose timestamp is not smaller
insert_by_timestamp(sorted, o) ==
  IF sorted = <<>>
    THEN <<o>>
    ELSE IF str_lt(Head(sorted).timestamp, o.timestamp)
      THEN <<o>> \o sorted
      ELSE <<Head(sorted)>> \o insert_by_timestamp(Tail(sorted), o)

RECURSIVE sorted_by_timestamp_reverse(_)
\* sorted(occurrences, key=lambda o: o.timestamp, reverse=True)
sorted_by_timestamp_reverse(occurrences) ==
  IF occurrences = <<>>
    THEN <<>>
    ELSE insert_by_timestamp(
           sorted_by_timestamp_reverse(SubSeq(occurrences, 1, Len(occurrences) - 1)),
           occurrences[Len(occurrences)])

\* list[:limit]
slice_to(list, limit) ==
  IF limit >= 0
    THEN SubSeq(list, 1, IF limit < Len(list) THEN limit ELSE Len(list))
    ELSE SubSeq(list, 1, Len(list) + limit)

\* ErrorStore.get_recent_errors(limit)
get_recent_errors(limit) ==
  StoreRead(
    Returned(slice_to(
      sorted_by_timestamp_reverse(Repository_all(table, ReadAllLimit, 0)),
      limit)),
    "all")

\* ErrorStore.get_errors_by_category(category): the codes of the category
\* are taken from ERROR_REGISTRY before the store is tested
get_errors_by_category(category) ==
  LET category_codes ==
        {ERROR_REGISTRY[i].key : i \in
           {j \in 1..Len(ERROR_REGISTRY) :
              ERROR_REGISTRY[j].value.category = category}}
  IN  StoreRead(
        Returned(SelectSeq(Repository_all(table, ReadAllLimit, 0),
                           LAMBDA o : o.error_code \in category_codes)),
        "all")

\* ErrorStore.total_count()
total_count ==
  StoreRead(Returned(Repository_count(table)), "count")

\* ErrorStore.all_occurrences(limit, offset)
all_occurrences(limit, offset) ==
  StoreRead(Returned(Repository_all(table, limit, offset)), "all")

\* ErrorStore.repository
repository ==
  StoreRead(Returned(_repo), "none")

\* the instant a datetime denotes, in half seconds of UTC since 2020
utc_instant(dt) ==
  ((((((dt.year - 2020) * 12 + dt.month) * 31 + dt.day) * 24 + dt.hour) * 60
      + dt.minute - dt.utcoffset) * 60 + dt.second) * 2
    + dt.microsecond \div 500000

\* timestamps passed to record_error: noon in a zone five and a half hours
\* ahead of UTC, and seven in the morning UTC of the same day
IstNoon ==
  [year |-> 2024, month |-> 1, day |-> 15, hour |-> 12, minute |-> 0,
   second |-> 0, microsecond |-> 0, utcoffset |-> 330]

UtcMorning ==
  [year |-> 2024, month |-> 1, day |-> 15, hour |-> 7, minute |-> 0,
   second |-> 0, microsecond |-> 0, utcoffset |-> 0]

\* arguments record_error is called with
RecordArgs ==
  { [error_code |-> 101, agent_id |-> "agent-a", context |-> "test context",
     stack_trace |-> "Traceback", timestamp |-> None],
    [error_code |-> 201, agent_id |-> "", context |-> "",
     stack_trace |-> "", timestamp |-> None],
    [error_code |-> 201, agent_id |-> "agent-b", context |-> "tool failed",
     stack_trace |-> "", timestamp |-> Some(IstNoon)],
    [error_code |-> 103, agent_id |-> "agent-a", context |-> "",
     stack_trace |-> "", timestamp |-> Some(UtcMorning)] }

\* ids the store is asked about: those it can have issued and one it never
\* issues
OccurrenceIds ==
  {uuid4(n) : n \in 1..MaxOccurrences} \cup {"nonexistent-uuid"}

Limits ==
  0..(MaxOccurrences + 1)

\* what a call leaves behind in the variables of the store
StoreStep(name, argument, effect) ==
  /\ op' = name
  /\ arg' = argument
  /\ result' = effect.result
  /\ table' = effect.table
  /\ uuids' = effect.uuids
  /\ repoCall' = effect.repoCall
  /\ matchedRule' = 0
  /\ UNCHANGED <<instanceVars, serviceVars, ERROR_REGISTRY, errors,
                 socketTimeoutIsAlias, registerCalls, _repo, bus, calls>>

\* store = await ErrorStore.create(): the repository is prepared
Create ==
  /\ _repo = None
  /\ _repo' = Some("error_occurrences")
  /\ op' = "create"
  /\ arg' = <<>>
  /\ result' = ReturnedNone
  /\ repoCall' = "prepare_repository"
  /\ matchedRule' = 0
  /\ UNCHANGED <<instanceVars, serviceVars, ERROR_REGISTRY, errors,
                 socketTimeoutIsAlias, registerCalls, table, uuids, clock,
                 recorded, bus, calls>>

\* the history after a record_error call: a call that returned an id adds
\* its arguments and the instant the error was observed at
RecordedAfter(a, effect) ==
  IF effect.result.kind = "return"
    THEN Append(recorded,
                [id |-> effect.result.value,
                 error_code |-> a.error_code,
                 agent_id |-> a.agent_id,
                 context |-> a.context,
                 stack_trace |-> a.stack_trace,
                 deleted |-> FALSE,
                 instant |-> IF a.timestamp # None
                               THEN utc_instant(a.timestamp[1])
                               ELSE utc_instant(datetime_now(clock))])
    ELSE recorded

\* await store.record_error(**a); half a second passes before the next call
RecordError(a) ==
  /\ clock < MaxOccurrences
  /\ StoreStep("record_error", a,
               record_error(a.error_code, a.agent_id, a.context,
                            a.stack_trace, a.timestamp))
  /\ recorded' =
       RecordedAfter(a, record_error(a.error_code, a.agent_id, a.context,
                                     a.stack_trace, a.timestamp))
  /\ clock' = clock + 1

\* await store.record_agent_error(error, agent_id, context, stack_trace)
RecordAgentError(error, a) ==
  /\ clock < MaxOccurrences
  /\ StoreStep("record_agent_error", [a EXCEPT !.error_code = error.code],
               record_agent_error(error, a.agent_id, a.context, a.stack_trace))
  /\ recorded' =
       RecordedAfter([a EXCEPT !.error_code = error.code],
                     record_agent_error(error, a.agent_id, a.context,
                                        a.stack_trace))
  /\ clock' = clock + 1

\* the history after delete_occurrence(occurrence_id) was called and did not
\* raise
DeletedAfter(occurrence_id, effect) ==
  IF effect.result.kind = "return"
    THEN [i \in 1..Len(recorded) |->
            IF recorded[i].id = occurrence_id
              THEN [recorded[i] EXCEPT !.deleted = TRUE]
              ELSE recorded[i]]
    ELSE recorded

DeleteOccurrence(occurrence_id) ==
  /\ StoreStep("delete_occurrence", occurrence_id,
               delete_occurrence(occurrence_id))
  /\ recorded' = DeletedAfter(occurrence_id, delete_occurrence(occurrence_id))
  /\ UNCHANGED clock

GetOccurrence(occurrence_id) ==
  /\ StoreStep("get_occurrence", occurrence_id, get_occurrence(occurrence_id))
  /\ UNCHANGED <<clock, recorded>>

GetErrorsByAgent(agent_id) ==
  /\ StoreStep("get_errors_by_agent", agent_id, get_errors_by_agent(agent_id))
  /\ UNCHANGED <<clock, recorded>>

GetErrorsByCode(error_code) ==
  /\ StoreStep("get_errors_by_code", error_code, get_errors_by_code(error_code))
  /\ UNCHANGED <<clock, recorded>>

GetErrorFrequency ==
  /\ StoreStep("get_error_frequency", <<>>, get_error_frequency)
  /\ UNCHANGED <<clock, recorded>>

GetRecentErrors(limit) ==
  /\ StoreStep("get_recent_errors", limit, get_recent_errors(limit))
  /\ UNCHANGED <<clock, recorded>>

GetErrorsByCategory(category) ==
  /\ StoreStep("get_errors_by_category", category,
               get_errors_by_category(category))
  /\ UNCHANGED <<clock, recorded>>

TotalCount ==
  /\ StoreStep("total_count", <<>>, total_count)
  /\ UNCHANGED <<clock, recorded>>

AllOccurrences(limit, offset) ==
  /\ StoreStep("all_occurrences", <<limit, offset>>,
               all_occurrences(limit, offset))
  /\ UNCHANGED <<clock, recorded>>

RepositoryProperty ==
  /\ StoreStep("repository", <<>>, repository)
  /\ UNCHANGED <<clock, recorded>>

\* one ErrorStore, from its construction on
NextStore ==
  \/ Create
  \/ \E a \in RecordArgs : RecordError(a)
  \/ \E a \in {r \in RecordArgs : r.timestamp = None /\ r.agent_id # ""} :
       RecordAgentError(DictAt(ERROR_REGISTRY, 103), a)
  \/ \E id \in OccurrenceIds : DeleteOccurrence(id)
  \/ \E id \in OccurrenceIds : GetOccurrence(id)
  \/ \E agent_id \in {"agent-a", "agent-z"} : GetErrorsByAgent(agent_id)
  \/ \E error_code \in {201, 9999} : GetErrorsByCode(error_code)
  \/ GetErrorFrequency
  \/ \E limit \in Limits : GetRecentErrors(limit)
  \/ \E category \in {"model", "tool"} : GetErrorsByCategory(category)
  \/ TotalCount
  \/ \E limit \in {1, 100}, offset \in {0, 1} : AllOccurrences(limit, offset)
  \/ RepositoryProperty

SpecStore ==
  Init /\ [][NextStore]_vars

\* one AsyncErrorRegistry, its calls run as concurrent tasks.  A task runs
\* until an await and may be suspended there; the three awaits of a call
\* (increment_request_count, increment_error_count, emit) each take effect
\* in one piece.  pc names the await a call will perform next.
AsyncEffect(requests, failures, events, pc, outcome) ==
  [request_count |-> requests, error_count |-> failures, emitted |-> events,
   pc |-> pc, result |-> outcome]

\* variant: the failure is counted first, the request when the event goes out
async_lookup_error_resume_failure_first(code, pc) ==
  IF pc = "increment_request_count"
    THEN IF lookup_error(code).kind = "raise"
           THEN AsyncEffect(request_count, error_count + 1, emitted,
                            "emit_failed", ReturnedNone)
           ELSE AsyncEffect(request_count + 1, error_count, emitted, "emit",
                            ReturnedNone)
    ELSE IF pc = "emit_failed"
      THEN AsyncEffect(request_count + 1, error_count,
             Append(emitted,
                    Event("error.lookup_failed", [error_code |-> code])),
             "done", lookup_error(code))
      ELSE AsyncEffect(request_count, error_count,
             Append(emitted,
                    Event("error.looked_up",
                          [error_code |-> lookup_error(code).value.code,
                           error_name |-> lookup_error(code).value.name])),
             "done", lookup_error(code))

\* AsyncErrorRegistry.lookup_error(code) resumed at pc and run up to its
\* next await
async_lookup_error_resume(code, pc) ==
  IF pc = "increment_request_count"
    THEN AsyncEffect(request_count + 1, error_count, emitted,
           IF lookup_error(code).kind = "raise"
             THEN "increment_error_count" ELSE "emit",
           ReturnedNone)
    ELSE IF pc = "increment_error_count"
      THEN AsyncEffect(request_count, error_count + 1, emitted, "emit_failed",
                       ReturnedNone)
      ELSE IF pc = "emit_failed"
        THEN AsyncEffect(request_count, error_count,
               Append(emitted,
                      Event("error.lookup_failed", [error_code |-> code])),
               "done", lookup_error(code))
        ELSE AsyncEffect(request_count, error_count,
               Append(emitted,
                      Event("error.looked_up",
                            [error_code |-> lookup_error(code).value.code,
                             error_name |-> lookup_error(code).value.name])),
               "done", lookup_error(code))

\* AsyncErrorRegistry.classify_exception(exc) resumed at pc and run up to its
\* next await
async_classify_exception_resume(exc, pc) ==
  IF pc = "increment_request_count"
    THEN IF classify_exception(exc).result.kind = "raise"
           THEN AsyncEffect(request_count + 1, error_count, emitted, "done",
                            classify_exception(exc).result)
           ELSE AsyncEffect(request_count + 1, error_count, emitted, "emit",
                            ReturnedNone)
    ELSE AsyncEffect(request_count, error_count,
           Append(emitted,
             Event("error.classified",
                   [error_code |-> classify_exception(exc).result.value.code,
                    error_name |-> classify_exception(exc).result.value.name,
                    category |-> ErrorCategory_value(
                                   classify_exception(exc).result.value.category),
                    retryable |-> classify_exception(exc).result.value.retryable,
                    severity |-> classify_exception(exc).result.value.severity])),
           "done", classify_exception(exc).result)

NoException ==
  [type |-> "", message |-> ""]

\* the calls started: lookups of a registered and of an unregistered code,
\* and a classification
ConcurrentCalls ==
  {[kind |-> "lookup_error", code |-> code, exc |-> NoException,
    pc |-> "increment_request_count"] : code \in {103, 9999}}
  \cup {[kind |-> "classify_exception", code |-> 0, exc |-> exc,
         pc |-> "increment_request_count"] :
          exc \in {e \in AsyncExceptions : e.type = "TimeoutError"}}

\* asyncio.create_task(registry.lookup_error(code)) or
\* asyncio.create_task(registry.classify_exception(exc))
StartCall(call) ==
  /\ Len(calls) < MaxCalls
  /\ calls' = Append(calls, call)
  /\ op' = "create_task"
  /\ arg' = Len(calls) + 1
  /\ matchedRule' = 0
  /\ UNCHANGED <<storeVars, bus, instanceVars, serviceVars, ERROR_REGISTRY,
                 errors, socketTimeoutIsAlias, registerCalls, result>>

async_resume(call) ==
  IF call.kind = "lookup_error"
    THEN async_lookup_error_resume(call.code, call.pc)
    ELSE async_classify_exception_resume(call.exc, call.pc)

\* the event loop resumes call i, which runs up to its next await
ResumeCall(i) ==
  /\ calls[i].pc # "done"
  /\ request_count' = async_resume(calls[i]).request_count
  /\ error_count' = async_resume(calls[i]).error_count
  /\ emitted' = async_resume(calls[i]).emitted
  /\ calls' = [calls EXCEPT ![i].pc = async_resume(calls[i]).pc]
  /\ result' = IF async_resume(calls[i]).pc = "done"
                 THEN async_resume(calls[i]).result ELSE result
  /\ op' = "resume"
  /\ arg' = i
  /\ matchedRule' = 0
  /\ UNCHANGED <<storeVars, bus, instanceVars, ERROR_REGISTRY, errors,
                 socketTimeoutIsAlias, registerCalls>>

NextConcurrent ==
  \/ \E call \in ConcurrentCalls : StartCall(call)
  \/ \E i \in 1..Len(calls) : ResumeCall(i)

SpecConcurrent ==
  Init /\ [][NextConcurrent]_vars

(* ---------------- integration.py: event publishing ---------------------- *)

_SERVICE_NAME ==
  "aumai-error-taxonomy"

RECURSIVE dict_update(_, _)
\* data.update(other): every entry of other is assigned, in order
dict_update(data, other) ==
  IF other = <<>>
    THEN data
    ELSE dict_update(DictSet(data, Head(other).key, Head(other).value),
                     Tail(other))

\* publish_error_classified(event_bus, error, agent_id, context, extra_data):
\* the outcome and the events passed to the bus. extra_data is a dict; None
\* and the empty dict are both written <<>>. The call
\* publish_simple("error.classified", source=..., **data) is a TypeError when
\* data has its own "source" key. The bus has no subscribers.
publish_error_classified(error, agent_id, context, extra_data) ==
  LET base == <<[key |-> "error_code", value |-> error.code],
                [key |-> "error_name", value |-> error.name],
                [key |-> "category",
                 value |-> ErrorCategory_value(error.category)],
                [key |-> "severity", value |-> error.severity],
                [key |-> "retryable", value |-> error.retryable],
                [key |-> "agent_id", value |-> agent_id],
                [key |-> "context", value |-> context]>>
      data == IF extra_data # <<>> THEN dict_update(base, extra_data) ELSE base
  IN  IF DictHas(data, "source")
        THEN [result |-> Raised("TypeError"), published |-> <<>>]
        ELSE [result |-> Returned(0),
              published |-> <<[event_type |-> "error.classified",
                               source |-> _SERVICE_NAME,
                               data |-> data]>>]

\* the extra_data dicts passed: none, a new key, a key of the payload, and
\* the name of a keyword of publish_simple
ExtraData ==
  { <<>>,
    <<[key |-> "custom_key", value |-> "custom_value"]>>,
    <<[key |-> "custom_key", value |-> "custom_value"],
      [key |-> "severity", value |-> "low"]>>,
    <<[key |-> "source", value |-> "agent-runtime"]>> }

\* the definitions published
PublishedErrors ==
  {DictAt(ERROR_REGISTRY, code) : code \in {103, 302, 601}}

\* await publish_error_classified(event_bus, error, agent_id, context,
\* extra_data)
PublishErrorClassified(error, agent_id, context, extra_data) ==
  /\ Len(bus) < MaxPublished
  /\ op' = "publish_error_classified"
  /\ arg' = [error |-> error, agent_id |-> agent_id, context |-> context,
             extra_data |-> extra_data]
  /\ result' =
       publish_error_classified(error, agent_id, context, extra_data).result
  /\ bus' = bus \o
       publish_error_classified(error, agent_id, context, extra_data).published
  /\ matchedRule' = 0
  /\ UNCHANGED <<storeVars, calls, instanceVars, serviceVars, ERROR_REGISTRY,
                 errors, socketTimeoutIsAlias, registerCalls>>

NextIntegration ==
  \E error \in PublishedErrors, agent_id \in {"", "agent-1"},
     extra_data \in ExtraData :
    PublishErrorClassified(error, agent_id, "", extra_data)

SpecIntegration ==
  Init /\ [][NextIntegration]_vars

(* ------------------------ cli.py: lookup and classify ------------------- *)

\* the names in the builtins module that denote exception classes
BuiltinExceptions ==
  {"BaseException", "Exception", "KeyboardInterrupt", "ArithmeticError",
   "ZeroDivisionError", "LookupError", "IndexError", "KeyError",
   "RuntimeError", "RecursionError", "MemoryError", "TypeError", "ValueError",
   "UnicodeError", "UnicodeDecodeError", "UnicodeEncodeError", "OSError",
   "TimeoutError", "ConnectionError", "ConnectionRefusedError",
   "ConnectionResetError", "BrokenPipeError", "PermissionError",
   "FileNotFoundError"}

\* names in the builtins module that denote something else
BuiltinOthers ==
  {"int", "print"}

\* _resolve_exception(name): the class, or None
_resolve_exception(name) ==
  IF name \in BuiltinExceptions THEN Some(name) ELSE None

\* exc_class(text): the classes whose constructor takes exactly five
\* arguments raise TypeError when called with one
construct(exc_class, text) ==
  IF exc_class \in {"UnicodeDecodeError", "UnicodeEncodeError"}
    THEN Raised("TypeError")
    ELSE Returned([type |-> exc_class, message |-> text])

\* how a command ends: the exit status, what it reported on standard output
\* (the code of the definition, 0 for none), whether it wrote to standard
\* error, and the exception that left the command uncaught (None for none)
CommandEnd(exit_code, code, output_json, stderr, unhandled) ==
  [exit_code |-> exit_code, code |-> code, json |-> output_json,
   stderr |-> stderr, unhandled |-> unhandled]

\* classify_command(exception_name, output_json)
classify_command(exception_name, output_json) ==
  LET exc_class == _resolve_exception(exception_name)
      exc_instance ==
        IF exc_class = None
          THEN Returned([type |-> "ValueError", message |-> exception_name])
          ELSE construct(exc_class[1], exception_name)
  IN  IF exc_instance.kind = "raise"
        THEN CommandEnd(1, 0, FALSE, exc_class = None,
                        Some(exc_instance.value))
        ELSE IF classify_exception(exc_instance.value).result.kind = "raise"
          THEN CommandEnd(1, 0, FALSE, exc_class = None,
                 Some(classify_exception(exc_instance.value).result.value))
          ELSE CommandEnd(0,
                 classify_exception(exc_instance.value).result.value.code,
                 output_json, exc_class = None, None)

\* lookup_command(code, output_json)
lookup_command(code, output_json) ==
  IF lookup_error(code).kind = "raise"
    THEN CommandEnd(1, 0, FALSE, TRUE, None)
    ELSE CommandEnd(0, lookup_error(code).value.code, output_json, FALSE,
                    None)

\* type.__name__ of a class of the rule table
type_name(t) ==
  IF t = "urllib.error.URLError"
    THEN "URLError"
    ELSE IF t = "socket.timeout"
      THEN IF socketTimeoutIsAlias THEN "TimeoutError" ELSE "timeout"
      ELSE t

\* the names given on the command line: the names of the kinds of the rule
\* table, names of other exception classes, and names of no exception class
ExceptionNames ==
  {type_name(_EXCEPTION_CODE_MAP[i].exc_type) :
     i \in 1..Len(_EXCEPTION_CODE_MAP)}
  \cup {"KeyboardInterrupt", "ZeroDivisionError", "MyCustomException",
        "CompletelyUnknownException123", "urllib.error.URLError"}
  \cup BuiltinOthers

\* aumai-error-taxonomy classify EXCEPTION_NAME [--json]
ClassifyCommand(exception_name, output_json) ==
  /\ op' = "cli.classify"
  /\ arg' = [exception_name |-> exception_name, output_json |-> output_json]
  /\ result' = classify_command(exception_name, output_json)
  /\ matchedRule' = 0
  /\ UNCHANGED <<storeVars, bus, calls, instanceVars, serviceVars,
                 ERROR_REGISTRY, errors, socketTimeoutIsAlias, registerCalls>>

\* aumai-error-taxonomy lookup CODE [--json]
LookupCommand(code, output_json) ==
  /\ op' = "cli.lookup"
  /\ arg' = [code |-> code, output_json |-> output_json]
  /\ result' = lookup_command(code, output_json)
  /\ matchedRule' = 0
  /\ UNCHANGED <<storeVars, bus, calls, instanceVars, serviceVars,
                 ERROR_REGISTRY, errors, socketTimeoutIsAlias, registerCalls>>

NextCli ==
  \/ \E exception_name \in ExceptionNames, output_json \in BOOLEAN :
       ClassifyCommand(exception_name, output_json)
  \/ \E code \in AsyncCodes \cup {302, 601, 605}, output_json \in BOOLEAN :
       LookupCommand(code, output_json)

SpecCli ==
  Init /\ [][NextCli]_vars

(* ------------------------------ properties ------------------------------ *)

Rules ==
  1..Len(_EXCEPTION_CODE_MAP)

\* an exception of class t is of kind k: k's class is t's class or one of
\* its ancestors
KindOf(t, k) ==
  \E c \in Mro(ClassOf(t)) : c = ClassOf(k)

\* rule i is the first rule of the table whose kind exc is an instance of
FirstMatch(t, i) ==
  /\ KindOf(t, _EXCEPTION_CODE_MAP[i].exc_type)
  /\ \A j \in Rules : j < i => ~KindOf(t, _EXCEPTION_CODE_MAP[j].exc_type)

NoMatch(t) ==
  \A i \in Rules : ~KindOf(t, _EXCEPTION_CODE_MAP[i].exc_type)

\* v is the definition the built-in registry holds under code
IsRegistryDefinition(v, code) ==
  \E k \in 1..Len(ERROR_REGISTRY) :
    ERROR_REGISTRY[k].key = code /\ ERROR_REGISTRY[k].value = v

\* C1: classify_exception returns the registry definition for the code of
\* the first rule, in table order, whose kind the exception is an instance
\* of; the earliest rule wins even when a later rule's kind is more specific.
C1_FirstRuleWins ==
  op = "classify_exception" =>
    \A i \in Rules :
      FirstMatch(arg.type, i) =>
        /\ matchedRule = i
        /\ result.kind = "return"
        /\ IsRegistryDefinition(result.value, _EXCEPTION_CODE_MAP[i].code)

\* a ConnectionRefusedError, an instance of the kinds of rules 2, 3 and 16,
\* resolved by rule 2 although rule 3 names its own class
C1_Witness ==
  /\ op = "classify_exception"
  /\ arg.type = "ConnectionRefusedError"
  /\ FirstMatch(arg.type, 2)
  /\ KindOf(arg.type, _EXCEPTION_CODE_MAP[3].exc_type)
  /\ matchedRule = 2
  /\ result.value.code = 404

C3_Expected ==
  [ TimeoutError |-> 103, ConnectionError |-> 404,
    ConnectionRefusedError |-> 404, PermissionError |-> 302,
    FileNotFoundError |-> 602, KeyError |-> 602, MemoryError |-> 401,
    RecursionError |-> 501, UnicodeDecodeError |-> 605, ValueError |-> 601,
    TypeError |-> 203, OSError |-> 405 ]
  @@ ("socket.timeout" :> 103)
  @@ ("urllib.error.URLError" :> 404)

C4_LookupReturnsOwnCode ==
  (op = "lookup_error" /\ arg \in DictKeys(ERROR_REGISTRY)) =>
    result.kind = "return" /\ result.value.code = arg

C4_Witness ==
  /\ op = "lookup_error"
  /\ arg = 105
  /\ arg \in DictKeys(ERROR_REGISTRY)
  /\ result.kind = "return"
  /\ result.value.code = 105

\* C5: lookup_error(c) raises UnknownErrorCode for every integer c that is not
\* a key of the built-in registry (every c <= 0 and unused positive codes
\* among them), and returns a definition in every other case.
C5_LookupRaisesIffAbsent ==
  op = "lookup_error" =>
    /\ arg \notin DictKeys(ERROR_REGISTRY) =>
         result.kind = "raise" /\ result.value = "UnknownErrorCode"
    /\ arg <= 0 => result.kind = "raise" /\ result.value = "UnknownErrorCode"
    /\ arg \in DictKeys(ERROR_REGISTRY) => result.kind = "return"
    /\ result.kind \in {"return", "raise"}

C5_Witness ==
  /\ op = "lookup_error"
  /\ arg = 9999
  /\ result.kind = "raise"
  /\ result.value = "UnknownErrorCode"

\* the codes of a list of definitions
CodesOf(xs) ==
  {xs[i].code : i \in 1..Len(xs)}

StrictlyAscending(xs) ==
  \A i, j \in 1..Len(xs) : i < j => xs[i].code < xs[j].code

Ascending(xs) ==
  \A i, j \in 1..Len(xs) : i < j => xs[i].code <= xs[j].code

\* C6: errors_by_category(g) returns exactly the built-in definitions of
\* category g, strictly ascending by code, and the code sets of two different
\* categories are disjoint.
C6_ByCategoryExactSortedDisjoint ==
  op = "errors_by_category" =>
    /\ result.kind = "return"
    /\ \A i \in 1..Len(result.value) :
         /\ result.value[i].category = arg
         /\ IsRegistryDefinition(result.value[i], result.value[i].code)
    /\ \A k \in 1..Len(ERROR_REGISTRY) :
         ERROR_REGISTRY[k].value.category = arg =>
           \E i \in 1..Len(result.value) :
             result.value[i] = ERROR_REGISTRY[k].value
    /\ StrictlyAscending(result.value)
    /\ \A g \in Categories \ {arg} :
         CodesOf(result.value) \cap CodesOf(errors_by_category(g)) = {}

C6_Witness ==
  /\ op = "errors_by_category"
  /\ arg = "resource"
  /\ Len(result.value) = 6
  /\ result.value[5].code = 405

\* the register calls made so far under code c, as positions in the history
CallsFor(c) ==
  {i \in 1..Len(registerCalls) : registerCalls[i].code = c}

\* the definition most recently registered under code c
LastRegistered(c) ==
  registerCalls[CHOOSE i \in CallsFor(c) : \A j \in CallsFor(c) : j <= i]

\* what get(c) must give after the register calls made so far
C7_GetOutcome(r, c) ==
  IF CallsFor(c) = {}
    THEN r.kind = "None"
    ELSE r.kind = "return" /\ r.value = LastRegistered(c)

\* C7: on a custom ErrorRegistry, after any sequence of register calls,
\* get(c) returns the definition most recently registered under c (a later
\* registration under the same code replaces the earlier one, without raising
\* and without adding an entry), and returns None, never raising, for a code
\* that was never registered.
C7_LastWriteWins ==
  /\ \A c \in GetCodes : C7_GetOutcome(ErrorRegistry_get(c), c)
  /\ Len(errors) = Cardinality({registerCalls[i].code : i \in 1..Len(registerCalls)})
  /\ op = "get" => C7_GetOutcome(result, arg)
  /\ op = "register" => result.kind = "None"

\* a get after the same code was registered twice with different definitions
C7_Witness ==
  /\ op = "get"
  /\ Len(registerCalls) >= 2
  /\ registerCalls[1].code = arg
  /\ registerCalls[2].code = arg
  /\ registerCalls[1].name = "first"
  /\ registerCalls[2].name = "second"
  /\ CallsFor(arg) = {1, 2}
  /\ Len(errors) = 1
  /\ result.kind = "return"
  /\ result.value.name = "second"

\* C8: on a custom ErrorRegistry, after any sequence of register calls,
\* by_category(g) returns the registered definitions of category g sorted
\* ascending by code.
C8_CustomByCategorySorted ==
  op = "by_category" =>
    /\ result.kind = "return"
    /\ \A i \in 1..Len(result.value) :
         /\ result.value[i].category = arg
         /\ CallsFor(result.value[i].code) # {}
         /\ result.value[i] = LastRegistered(result.value[i].code)
    /\ \A c \in CustomCodes :
         (CallsFor(c) # {} /\ LastRegistered(c).category = arg) =>
           \E i \in 1..Len(result.value) : result.value[i] = LastRegistered(c)
    /\ Ascending(result.value)

\* C9: the built-in registry contains exactly 30 definitions, the number the
\* service metadata advertises as error_count.
C9_ThirtyDefinitions ==
  /\ Len(ERROR_REGISTRY) = 30
  /\ Cardinality(DictKeys(ERROR_REGISTRY)) = 30
  /\ Len(ERROR_REGISTRY) = AdvertisedErrorCount

\* class a is a proper subclass of class b
StrictSubclass(a, b) ==
  /\ ClassOf(a) # ClassOf(b)
  /\ ClassOf(b) \in Mro(ClassOf(a))

\* C10: whenever two rules' kinds are related by subtyping, the rule of the
\* more specific kind comes before the rule of its ancestor, so an instance
\* of the subtype is matched by the subtype's rule and not by the ancestor's.
C10_SubtypeRuleFirst ==
  op = "classify_exception" =>
    \A i, j \in Rules :
      ( /\ StrictSubclass(_EXCEPTION_CODE_MAP[j].exc_type,
                          _EXCEPTION_CODE_MAP[i].exc_type)
        /\ KindOf(arg.type, _EXCEPTION_CODE_MAP[j].exc_type) ) =>
        j < i /\ matchedRule # i

Severities ==
  {"critical", "high", "medium", "low"}

FieldNames ==
  {"code", "category", "name", "description", "retryable", "severity"}

\* C11: constructing an AgentError with code <= 0 or with a severity outside
\* {critical, high, medium, low} fails, for every such input; constructing
\* one with valid values succeeds and every field reads back the value
\* supplied.
C11_ConstructionValidates ==
  op = "AgentError" =>
    IF arg.code <= 0 \/ arg.severity \notin Severities
      THEN result.kind = "raise"
      ELSE /\ result.kind = "return"
           /\ DOMAIN result.value = FieldNames
           /\ \A f \in FieldNames : result.value[f] = arg[f]

\* a rejected zero code with a valid severity
C11_Witness ==
  /\ op = "AgentError"
  /\ arg.code = 0
  /\ arg.severity = "high"
  /\ result.kind = "raise"

\* a definition is well formed and stored under its own code
WellFormedEntry(e) ==
  /\ e.value.code > 0
  /\ e.value.severity \in Severities
  /\ e.key = e.value.code

\* C12: in every reachable state every definition held by a registry, the
\* built-in one or a custom one, has code > 0 and a severity among critical,
\* high, medium, low and is stored under the key equal to its code; a
\* definition never changes after construction.
C12_RegistriesWellFormed ==
  /\ \A i \in 1..Len(ERROR_REGISTRY) : WellFormedEntry(ERROR_REGISTRY[i])
  /\ \A i \in 1..Len(errors) : WellFormedEntry(errors[i])
  /\ \A i \in 1..Len(errors) : errors[i].value = LastRegistered(errors[i].key)

\* C13: in the built-in registry every security definition is non-retryable
\* and critical, code 103 (model_timeout) is retryable and code 101
\* (model_not_found) is not.
C13_SecurityAndRetryability ==
  /\ \A i \in 1..Len(ERROR_REGISTRY) :
       ERROR_REGISTRY[i].value.category = "security" =>
         /\ ERROR_REGISTRY[i].value.retryable = FALSE
         /\ ERROR_REGISTRY[i].value.severity = "critical"
  /\ (op = "errors_by_category" /\ arg = "security") =>
       \A i \in 1..Len(result.value) :
         /\ result.value[i].retryable = FALSE
         /\ result.value[i].severity = "critical"
  /\ (op = "lookup_error" /\ arg = 103) =>
       /\ result.kind = "return"
       /\ result.value.name = "model_timeout"
       /\ result.value.retryable = TRUE
  /\ (op = "lookup_error" /\ arg = 101) =>
       /\ result.kind = "return"
       /\ result.value.name = "model_not_found"
       /\ result.value.retryable = FALSE

C13_Witness ==
  /\ op = "errors_by_category"
  /\ arg = "security"
  /\ Len(result.value) = 5
  /\ \A i \in 1..5 : result.value[i].severity = "critical"

\* C14: classify_exception depends on the exception's runtime type only: two
\* exceptions of the same type, whatever their message, are classified to the
\* same definition, and a repeated call gives the same result.
C14_TypeOnly ==
  [][ (op = "classify_exception" /\ op' = "classify_exception"
         /\ arg.type = arg'.type)
        => (result' = result /\ matchedRule' = matchedRule) ]_vars

\* a TimeoutError whose message is the one a refused connection carries
C14_Witness ==
  /\ op = "classify_exception"
  /\ arg.type = "TimeoutError"
  /\ arg.message = "refused"
  /\ result.kind = "return"
  /\ result.value.code = 103

\* the errors dict of the i-th instance
Contents(i) ==
  heap[dictOf[i]]

\* the definitions a dict d holds under code c (at most one)
HeldUnder(d, c) ==
  {d[k].value : k \in {n \in 1..Len(d) : d[n].key = c}}

\* C15: register on a custom ErrorRegistry changes only that instance's entry
\* for the registered code: the built-in ERROR_REGISTRY, every other instance
\* (those created with the default empty mapping included) and the
\* instance's entries under other codes stay as they were.
C15_RegisterFrame ==
  [][ op' = "register_on" =>
        /\ ERROR_REGISTRY' = ERROR_REGISTRY
        /\ dictOf' = dictOf
        /\ \A j \in 1..Len(dictOf) :
             j # arg'.instance => heap'[dictOf[j]] = heap[dictOf[j]]
        /\ \A c \in CustomCodes :
             c # arg'.error.code =>
               HeldUnder(heap'[dictOf[arg'.instance]], c)
                 = HeldUnder(heap[dictOf[arg'.instance]], c)
        /\ HeldUnder(heap'[dictOf[arg'.instance]], arg'.error.code)
             = {arg'.error} ]_vars

\* a registration on the second instance while the first holds another code
\* and the second already holds one
C15_Witness ==
  /\ op = "register_on"
  /\ Len(dictOf) = 2
  /\ arg.instance = 2
  /\ DictKeys(Contents(1)) = {701}
  /\ DictKeys(Contents(2)) = {701, 702}
  /\ Contents(1)[1].value # Contents(2)[1].value

ResponseFields ==
  {"code", "name", "category", "description", "severity", "retryable",
   "details", "timestamp"}

\* C16: create_error_response(error, details) returns a record whose single
\* key error maps to exactly the eight fields code, name, category,
\* description, severity, retryable, details, timestamp; code, name,
\* description, severity and retryable are the definition's, category is the
\* category's string value, details is the supplied string or None.
C16_ResponseShape ==
  op = "create_error_response" =>
    /\ result.kind = "return"
    /\ DOMAIN result.value = {"error"}
    /\ DOMAIN result.value.error = ResponseFields
    /\ \A f \in {"code", "name", "description", "severity", "retryable"} :
         result.value.error[f] = arg.error[f]
    /\ result.value.error.category \in Categories
    /\ result.value.error.category = arg.error.category
    /\ result.value.error.details = arg.details

\* a response built with an empty details string
C16_Witness ==
  /\ op = "create_error_response"
  /\ arg.details = Some("")
  /\ arg.error.code = 103
  /\ result.value.error.details = Some("")
  /\ result.value.error.retryable = TRUE

\* the display string without details
C17_Base(error) ==
  "[" \o ToString(error.code) \o "] " \o error.name \o ": " \o error.description

\* C17 as stated: the exception carries the definition and the details it was
\* given, and its message is "[code] name: description" when details is None
\* and that string followed by " -- details" whenever details is given.
C17_MessageWheneverGiven ==
  op = "AgentErrorException" =>
    /\ result.kind = "raise"
    /\ result.value.error = arg.error
    /\ result.value.details = arg.details
    /\ result.value.message =
         IF arg.details = None
           THEN C17_Base(arg.error)
           ELSE C17_Base(arg.error) \o " -- " \o arg.details[1]

\* C17 amended: the exception carries the definition and the details it was
\* given; its message is "[code] name: description" when details is None or
\* the empty string, and that string followed by " -- details" when details
\* is a non-empty string.
C17_MessageWhenNonEmpty ==
  op = "AgentErrorException" =>
    /\ result.kind = "raise"
    /\ result.value.error = arg.error
    /\ result.value.details = arg.details
    /\ result.value.message =
         IF arg.details = None \/ arg.details = Some("")
           THEN C17_Base(arg.error)
           ELSE C17_Base(arg.error) \o " -- " \o arg.details[1]

\* an exception built with an empty details string
C17_Witness ==
  /\ op = "AgentErrorException"
  /\ arg.details = Some("")
  /\ arg.error.code = 301
  /\ result.value.details = Some("")
  /\ result.value.message =
       "[301] auth_failed: Authentication credentials are missing, invalid, or expired."

\* the events the step added to the emitter's record
NewEvents ==
  SubSeq(emitted', Len(emitted) + 1, Len(emitted'))

\* C18: AsyncErrorRegistry.lookup_error on an unregistered code increments
\* error_count by exactly 1, emits exactly one error.lookup_failed event
\* carrying that code and no error.looked_up event, and re-raises
\* UnknownErrorCode to the caller.
C18_LookupFailure ==
  [][ (op' = "async.lookup_error" /\ arg' \notin DictKeys(ERROR_REGISTRY)) =>
        /\ error_count' = error_count + 1
        /\ Len(emitted') = Len(emitted) + 1
        /\ SubSeq(emitted', 1, Len(emitted)) = emitted
        /\ NewEvents[1].name = "error.lookup_failed"
        /\ DOMAIN NewEvents[1].kwargs = {"error_code"}
        /\ NewEvents[1].kwargs.error_code = arg'
        /\ \A i \in 1..Len(NewEvents) : NewEvents[i].name # "error.looked_up"
        /\ result'.kind = "raise"
        /\ result'.value = "UnknownErrorCode" ]_vars

\* a failed lookup of 9999 after an earlier call
C18_Witness ==
  /\ op = "async.lookup_error"
  /\ arg = 9999
  /\ request_count = 2
  /\ error_count = 1
  /\ Len(emitted) = 2
  /\ emitted[2].name = "error.lookup_failed"
  /\ emitted[2].kwargs.error_code = 9999
  /\ result.kind = "raise"

\* the text holds no JSON document, or prose besides one
C19_NotJson(content) ==
  \/ \A i \in DOMAIN content : content[i].text # "json"
  \/ \E i \in DOMAIN content : content[i].text = "prose"

\* the text holds a JSON document that is not an object
C19_NotAnObject(content) ==
  \E i \in DOMAIN content :
    content[i].text = "json" /\ content[i].doc.type # "object"

\* the text holds a JSON object without the suggestion member
C19_MissingRequired(content) ==
  \E i \in DOMAIN content :
    /\ content[i].text = "json"
    /\ content[i].doc.type = "object"
    /\ \A j \in DOMAIN content[i].doc.members :
         content[i].doc.members[j].key # "suggestion"

\* the LLM call failed: the client raised an error, or answered with a text
\* that is not JSON, not a JSON object, or lacks the required member
C19_LLMFailed(completion) ==
  \/ completion.kind = "raise" /\ KindOf(completion.error, "Exception")
  \/ /\ completion.kind = "return"
     /\ \/ C19_NotJson(completion.content)
        \/ C19_NotAnObject(completion.content)
        \/ C19_MissingRequired(completion.content)

\* C19: suggest never raises because of the LLM. Whatever text the client
\* answers with, suggest returns a suggestion; and whenever the client raises
\* an error, or its text is not JSON, not a JSON object, or lacks a required
\* member, the suggestion returned is the static suggestion for the error
\* code. (An interrupt or cancellation delivered while the call waits is not
\* an error of the LLM and is not part of the statement.)
C19_SuggestFallsBack ==
  op = "suggest" =>
    /\ arg.completion.kind = "return" => result.kind = "return"
    /\ C19_LLMFailed(arg.completion) =>
         /\ result.kind = "return"
         /\ result.value = _static_suggestion(arg.error_code)

\* a JSON object without the suggestion member, for a code that has only a
\* per-category static suggestion
C19_Witness ==
  /\ op = "suggest"
  /\ arg.error_code = 606
  /\ arg.completion.kind = "return"
  /\ C19_MissingRequired(arg.completion.content)
  /\ result.kind = "return"
  /\ result.value = DictAt(_CATEGORY_STATIC_SUGGESTIONS, "data")

\* the field of a definition an event keyword reports
EventField ==
  [error_code |-> "code", error_name |-> "name", category |-> "category",
   retryable |-> "retryable", severity |-> "severity"]

\* C20: every AsyncErrorRegistry.lookup_error or classify_exception call
\* increments request_count by exactly 1 and, when it returns a definition,
\* has emitted exactly one event, error.looked_up for a lookup and
\* error.classified for a classification (the 601 fallback included), whose
\* fields equal those of the returned definition, and has left error_count
\* unchanged.
C20_OneEventPerCall ==
  [][ (op' \in {"async.lookup_error", "async.classify_exception"}) =>
        /\ request_count' = request_count + 1
        /\ result'.kind = "return" =>
             /\ error_count' = error_count
             /\ Len(emitted') = Len(emitted) + 1
             /\ SubSeq(emitted', 1, Len(emitted)) = emitted
             /\ NewEvents[1].name =
                  (IF op' = "async.lookup_error"
                     THEN "error.looked_up" ELSE "error.classified")
             /\ DOMAIN NewEvents[1].kwargs =
                  (IF op' = "async.lookup_error"
                     THEN {"error_code", "error_name"}
                     ELSE {"error_code", "error_name", "category",
                           "retryable", "severity"})
             /\ \A k \in DOMAIN NewEvents[1].kwargs :
                  NewEvents[1].kwargs[k] = result'.value[EventField[k]] ]_vars

\* a classification that fell back to 601, after a failed lookup
C20_Witness ==
  /\ op = "async.classify_exception"
  /\ arg.type = "MyCustomException"
  /\ matchedRule = 0
  /\ result.kind = "return"
  /\ result.value.code = 601
  /\ request_count = 2
  /\ error_count = 1
  /\ Len(emitted) = 2
  /\ emitted[2].name = "error.classified"
  /\ emitted[2].kwargs.error_code = 601

CoreReaders ==
  {"lookup_error", "errors_by_category", "classify_exception",
   "create_error_response"}

\* C21: lookup_error, errors_by_category, classify_exception and
\* create_error_response leave the built-in registry as it was: the same set
\* of codes and the same definition under each code, whether the call
\* returns or raises UnknownErrorCode.
C21_ReadersLeaveRegistry ==
  [][ op' \in CoreReaders =>
        /\ DictKeys(ERROR_REGISTRY') = DictKeys(ERROR_REGISTRY)
        /\ \A code \in DictKeys(ERROR_REGISTRY) :
             DictAt(ERROR_REGISTRY', code) = DictAt(ERROR_REGISTRY, code) ]_vars

\* a lookup that raised UnknownErrorCode, with the registry as built
C21_Witness ==
  /\ op = "lookup_error"
  /\ arg = 9999
  /\ result.kind = "raise"
  /\ result.value = "UnknownErrorCode"
  /\ ERROR_REGISTRY = _build_registry.registry

\* the category of each hundreds band
BandCategory ==
  <<"model", "tool", "security", "resource", "orchestration", "data">>

\* C22: every definition in the built-in registry has a code between 101
\* and 699, and the hundreds digit of the code names its category: 1xx
\* model, 2xx tool, 3xx security, 4xx resource, 5xx orchestration, 6xx data.
C22_BandsMatchCategories ==
  \A code \in DictKeys(ERROR_REGISTRY) :
    /\ code >= 101
    /\ code <= 699
    /\ DictAt(ERROR_REGISTRY, code).code = code
    /\ DictAt(ERROR_REGISTRY, code).category = BandCategory[code \div 100]

\* the data definitions listed: all of them in the 6xx band
C22_Witness ==
  /\ op = "errors_by_category"
  /\ arg = "data"
  /\ result.kind = "return"
  /\ Len(result.value) > 0
  /\ \A i \in 1..Len(result.value) : result.value[i].code \div 100 = 6

\* C23: suggest_static(code) returns the per-code static suggestion when the
\* code has one; otherwise, when the code is in the built-in registry, the
\* per-category suggestion of the code's category; otherwise the generic
\* suggestion. It raises for no code.
C23_StaticOrder ==
  op = "suggest_static" =>
    /\ result.kind = "return"
    /\ result.value =
         IF arg.error_code \in DictKeys(_STATIC_SUGGESTIONS)
           THEN DictAt(_STATIC_SUGGESTIONS, arg.error_code)
           ELSE IF arg.error_code \in DictKeys(ERROR_REGISTRY)
             THEN DictAt(_CATEGORY_STATIC_SUGGESTIONS,
                         DictAt(ERROR_REGISTRY, arg.error_code).category)
             ELSE GenericSuggestion

\* a code with a per-code suggestion: it is returned, not the suggestion of
\* the code's category
C23_Witness ==
  /\ op = "suggest_static"
  /\ arg.error_code = 604
  /\ result.kind = "return"
  /\ result.value = DictAt(_STATIC_SUGGESTIONS, 604)
  /\ result.value # DictAt(_CATEGORY_STATIC_SUGGESTIONS, "data")

\* the recorded occurrences that no delete_occurrence call has named
NotDeleted ==
  {i \in 1..Len(recorded) : ~recorded[i].deleted}

\* what total_count and get_occurrence answer agrees with the history of
\* record_error and delete_occurrence calls
C24_Answers ==
  /\ \A i, j \in 1..Len(recorded) : recorded[i].id = recorded[j].id => i = j
  /\ op = "total_count" /\ _repo # None =>
       /\ result.kind = "return"
       /\ result.value = Cardinality(NotDeleted)
  /\ op = "get_occurrence" /\ _repo # None =>
       IF \E i \in NotDeleted : recorded[i].id = arg
         THEN /\ result.kind = "return"
              /\ \E i \in NotDeleted :
                   /\ recorded[i].id = arg
                   /\ result.value.id = arg
                   /\ result.value.error_code = recorded[i].error_code
                   /\ result.value.agent_id = recorded[i].agent_id
                   /\ result.value.context = recorded[i].context
                   /\ result.value.stack_trace = recorded[i].stack_trace
         ELSE result.kind = "None"

\* C24: on an initialised ErrorStore, after any sequence of record_error and
\* delete_occurrence calls, total_count is the number of recorded
\* occurrences not yet deleted, the ids record_error returned are distinct,
\* get_occurrence(id) returns the occurrence with the recorded error_code,
\* agent_id, context and stack_trace exactly when id was recorded and not
\* deleted, and None otherwise; delete_occurrence returns True exactly when
\* it removed an occurrence and changes nothing when the id is unknown.
C24_StoreConsistent ==
  [][ /\ C24_Answers'
      /\ op' = "delete_occurrence" /\ _repo # None =>
           /\ result'.kind = "return"
           /\ result'.value = (\E i \in NotDeleted : recorded[i].id = arg')
           /\ Len(table') = Len(table) - (IF result'.value THEN 1 ELSE 0)
           /\ (\A i \in NotDeleted : recorded[i].id # arg') => table' = table
    ]_vars

\* two occurrences recorded, one of them deleted, the other one fetched
C24_Witness ==
  /\ op = "get_occurrence"
  /\ Len(recorded) = 2
  /\ Cardinality(NotDeleted) = 1
  /\ result.kind = "return"
  /\ result.value.agent_id = "agent-a"
  /\ result.value.context = "test context"
  /\ result.value.stack_trace = "Traceback"

\* the instant at which the occurrence with the given id was observed
ObservedAt(id) ==
  recorded[CHOOSE i \in 1..Len(recorded) : recorded[i].id = id].instant

\* C25: get_recent_errors(limit) returns at most limit occurrences, ordered
\* newest first by the time at which they were observed, and they are the
\* limit most recent of all stored occurrences (all of them when fewer than
\* limit are stored), including occurrences recorded with an explicit
\* timestamp.
C25_RecentNewestFirst ==
  op = "get_recent_errors" /\ _repo # None =>
    /\ result.kind = "return"
    /\ Len(result.value) = (IF arg < Len(table) THEN arg ELSE Len(table))
    /\ \A i, j \in 1..Len(result.value) :
         i < j => ObservedAt(result.value[i].id) >= ObservedAt(result.value[j].id)
    /\ \A i \in 1..Len(result.value) : \E k \in 1..Len(table) :
         table[k] = result.value[i]
    /\ \A k \in 1..Len(table) :
         (\A i \in 1..Len(result.value) : result.value[i] # table[k]) =>
           \A i \in 1..Len(result.value) :
             ObservedAt(table[k].id) <= ObservedAt(result.value[i].id)

StoreOperations ==
  {"record_error", "record_agent_error", "delete_occurrence",
   "get_occurrence", "get_errors_by_agent", "get_errors_by_code",
   "get_errors_by_category", "get_recent_errors", "get_error_frequency",
   "total_count", "all_occurrences", "repository"}

\* C26: every operation of an ErrorStore that was constructed without create
\* raises RuntimeError and neither reads nor writes the underlying store.
C26_NotReadyRaises ==
  op \in StoreOperations /\ _repo = None =>
    /\ result.kind = "raise"
    /\ result.value = "RuntimeError"
    /\ repoCall = "none"
    /\ table = <<>>

\* a write attempted before create
C26_Witness ==
  /\ op = "record_agent_error"
  /\ _repo = None
  /\ result.kind = "raise"
  /\ clock = 2

\* the keys publish_error_classified takes from its own arguments
PayloadKeys ==
  {"error_code", "error_name", "category", "severity", "retryable",
   "agent_id", "context"}

\* C27: for every call of publish_error_classified, with or without
\* extra_data, an 'error.classified' event is published whose error_code,
\* error_name, category, severity and retryable equal the fields of the
\* definition passed in; extra_data only adds further keys to the payload.
C27_PayloadIsDefinition ==
  op = "publish_error_classified" =>
    /\ result.kind = "return"
    /\ bus # <<>>
    /\ LET event == bus[Len(bus)]
       IN  /\ event.event_type = "error.classified"
           /\ DictAt(event.data, "error_code") = arg.error.code
           /\ DictAt(event.data, "error_name") = arg.error.name
           /\ DictAt(event.data, "category") =
                ErrorCategory_value(arg.error.category)
           /\ DictAt(event.data, "severity") = arg.error.severity
           /\ DictAt(event.data, "retryable") = arg.error.retryable
           /\ DictKeys(event.data) = PayloadKeys \cup DictKeys(arg.extra_data)

\* answers of an LLM that are usable but whose confidence is missing or is
\* not one of the three levels
OffScaleAnswers ==
  { <<JsonLine(JObject(<<SuggestionMember>>))>>,
    <<JsonLine(JObject(<<SuggestionMember,
         [key |-> "confidence", value |-> JString("certain")]>>))>>,
    <<JsonLine(JObject(<<SuggestionMember,
         [key |-> "confidence", value |-> JNull]>>))>>,
    <<JsonLine(JObject(<<SuggestionMember,
         [key |-> "confidence", value |-> JNumber("1")]>>))>> }

\* C28: every RecoverySuggestion returned by suggest, suggest_for_error or
\* suggest_static, whether it comes from the LLM response, the per-code
\* table, the per-category table or the generic fallback, has confidence
\* high, medium or low; an LLM response with any other or missing confidence
\* is used with confidence low.
C28_ConfidenceLevels ==
  /\ (op \in {"suggest", "suggest_for_error", "suggest_static"}
       /\ result.kind = "return")
       => result.value.confidence \in {"high", "medium", "low"}
  /\ (op \in {"suggest", "suggest_for_error"}
       /\ arg.completion.kind = "return"
       /\ arg.completion.content \in OffScaleAnswers)
       => /\ result.kind = "return"
          /\ result.value.suggestion = "Restart the agent."
          /\ result.value.confidence = "low"

C28_Witness ==
  /\ op = "suggest_for_error"
  /\ arg.completion.kind = "return"
  /\ arg.completion.content =
       <<JsonLine(JObject(<<SuggestionMember,
          [key |-> "confidence", value |-> JString("certain")]>>))>>
  /\ result.kind = "return"
  /\ result.value.confidence = "low"

\* the code the event of a call carries: the code looked up, or the code of
\* the definition the exception is classified as
OwnCode(call) ==
  IF call.kind = "lookup_error"
    THEN call.code
    ELSE IF call.exc.type = "TimeoutError" THEN 103 ELSE 601

OwnEventName(call) ==
  IF call.kind = "classify_exception"
    THEN "error.classified"
    ELSE IF DictHas(ERROR_REGISTRY, call.code)
      THEN "error.looked_up" ELSE "error.lookup_failed"

AllCompleted ==
  \A i \in 1..Len(calls) : calls[i].pc = "done"

\* C29: under any interleaving of N concurrent lookup_error and
\* classify_exception calls on one AsyncErrorRegistry, error_count never
\* exceeds request_count; once all calls have completed, request_count has
\* grown by exactly N, error_count by exactly the number of lookups of
\* unregistered codes, and exactly N events were emitted, as many with each
\* name and code as there are calls with that name and code of their own.
C29_CountersUnderInterleaving ==
  /\ error_count <= request_count
  /\ AllCompleted =>
       /\ request_count = Len(calls)
       /\ error_count =
            Cardinality({i \in 1..Len(calls) :
                           /\ calls[i].kind = "lookup_error"
                           /\ ~DictHas(ERROR_REGISTRY, calls[i].code)})
       /\ Len(emitted) = Len(calls)
       /\ \A call \in ConcurrentCalls :
            Cardinality({k \in 1..Len(emitted) :
                           /\ emitted[k].name = OwnEventName(call)
                           /\ emitted[k].kwargs.error_code = OwnCode(call)})
            = Cardinality({i \in 1..Len(calls) :
                             /\ OwnEventName(calls[i]) = OwnEventName(call)
                             /\ OwnCode(calls[i]) = OwnCode(call)})

\* three calls have completed, the first a lookup of an unregistered code
\* whose event went out last
C29_Witness ==
  /\ Len(calls) = 3
  /\ AllCompleted
  /\ calls[1].kind = "lookup_error" /\ calls[1].code = 9999
  /\ calls[2].kind = "classify_exception"
  /\ calls[3].kind = "lookup_error" /\ calls[3].code = 103
  /\ Len(emitted) = 3
  /\ emitted[1].name = "error.looked_up"
  /\ emitted[3].name = "error.lookup_failed"
  /\ error_count = 1

\* C30: for every exception kind in the classifier's rule table, the CLI
\* classify command given that kind's name exits 0 and reports the same
\* code that classify_exception returns for an instance of that kind; the
\* command never terminates with an unhandled error for any exception name.
C30_CliAgreesWithClassifier ==
  op = "cli.classify" =>
    /\ result.unhandled = None
    /\ \A i \in 1..Len(_EXCEPTION_CODE_MAP) :
         arg.exception_name = type_name(_EXCEPTION_CODE_MAP[i].exc_type) =>
           /\ result.exit_code = 0
           /\ classify_exception(
                [type |-> _EXCEPTION_CODE_MAP[i].exc_type,
                 message |-> arg.exception_name]).result.kind = "return"
           /\ result.code =
                classify_exception(
                  [type |-> _EXCEPTION_CODE_MAP[i].exc_type,
                   message |-> arg.exception_name]).result.value.code

====
